---- MODULE Spec2Model ----
(***************************************************************************)
(* Verification model of the Sigma detection-as-code tooling:              *)
(*   scripts/converters/sigma_to_sumologic.py  (in-process converter)      *)
(*   scripts/validators/validate_sigma.py      (rule validator)            *)
(*   convert_sigma_rules.py                    (sigma-cli batch converter) *)
(*                                                                         *)
(* A Python str is a sequence of one-character strings, so that lower(),   *)
(* upper(), replace(), substring search and \b\w+\b tokenisation are       *)
(* computed character by character.  A Python dict is a sequence of        *)
(* <<key, value>> pairs in insertion order.  A YAML value is a tagged      *)
(* record: [t |-> "none"], [t |-> "str", v |-> chars], [t |-> "int", ...], *)
(* [t |-> "list", v |-> values], [t |-> "dict", v |-> pairs].              *)
(***************************************************************************)
EXTENDS Integers, Sequences, FiniteSets, TLC

VARIABLES
  field_mappings,       \* SigmaToSumoLogicConverter.field_mappings
  logsource_mappings,   \* SigmaToSumoLogicConverter.logsource_mappings
  call,                 \* the function under call and its arguments
  ret,                  \* its return value (or the raised exception)
  errors,               \* SigmaValidator.errors
  warnings,             \* SigmaValidator.warnings
  input_kind,           \* main: args.input is a "file", a "dir" or "invalid"
  strict,               \* main: args.strict
  sigma_files,          \* main: the rule files found, in discovery order
  idx,                  \* main: how many of sigma_files the loop has taken
  success_count,        \* sigma_to_sumologic.main: success_count
  valid_count,          \* validate_sigma.main: valid_count
  converted_rules,      \* convert_sigma_rules.main: converted_rules
  out_files,            \* the files written under the output directory
  log,                  \* per processed file, what the call returned and wrote
  exit_code,            \* <<status>> once sys.exit ran, <<>> while running
  pc                    \* control position

tableVars == <<field_mappings, logsource_mappings>>

callVars == <<call, ret>>

validatorVars == <<errors, warnings>>

runVars == <<input_kind, strict, sigma_files, idx, success_count, valid_count,
             converted_rules, out_files, log, exit_code>>

vars == <<field_mappings, logsource_mappings, call, ret, errors, warnings,
          input_kind, strict, sigma_files, idx, success_count, valid_count,
          converted_rules, out_files, log, exit_code, pc>>

(***************************************************************************)
(* Strings                                                                 *)
(***************************************************************************)
UpperChars == <<"A","B","C","D","E","F","G","H","I","J","K","L","M",
                "N","O","P","Q","R","S","T","U","V","W","X","Y","Z">>

LowerChars == <<"a","b","c","d","e","f","g","h","i","j","k","l","m",
                "n","o","p","q","r","s","t","u","v","w","x","y","z">>

DigitChars == <<"0","1","2","3","4","5","6","7","8","9">>

Range(s) == { s[i] : i \in 1..Len(s) }

\* str.lower() on one character
LowerChar(c) ==
  IF c \in Range(UpperChars)
    THEN LowerChars[CHOOSE i \in 1..Len(UpperChars) : UpperChars[i] = c]
    ELSE c

\* str.upper() on one character
UpperChar(c) ==
  IF c \in Range(LowerChars)
    THEN UpperChars[CHOOSE i \in 1..Len(LowerChars) : LowerChars[i] = c]
    ELSE c

StrLower(s) == [i \in 1..Len(s) |-> LowerChar(s[i])]

StrUpper(s) == [i \in 1..Len(s) |-> UpperChar(s[i])]

\* sub occurs in s starting at position i
MatchAt(s, sub, i) ==
  /\ i + Len(sub) - 1 <= Len(s)
  /\ \A j \in 1..Len(sub) : s[i + j - 1] = sub[j]

\* Python's `sub in s` for two strings
StrContains(s, sub) == \E i \in 1..(Len(s) + 1) : MatchAt(s, sub, i)

\* str.startswith
StartsWith(s, prefix) == MatchAt(s, prefix, 1)

RECURSIVE Join(_, _)
\* sep.join(parts)
Join(sep, parts) ==
  IF parts = <<>> THEN <<>>
  ELSE IF Len(parts) = 1 THEN parts[1]
  ELSE parts[1] \o sep \o Join(sep, Tail(parts))

RECURSIVE Concat(_)
\* ''.join(parts)
Concat(parts) ==
  IF parts = <<>> THEN <<>> ELSE parts[1] \o Concat(Tail(parts))

(***************************************************************************)
(* Dicts and YAML values                                                   *)
(***************************************************************************)
DictHas(d, k) == \E i \in 1..Len(d) : d[i][1] = k

DictGet(d, k) == d[CHOOSE i \in 1..Len(d) : d[i][1] = k][2]

DictKeys(d) == [i \in 1..Len(d) |-> d[i][1]]

VNone == [t |-> "none"]

VStr(s) == [t |-> "str", v |-> s]

VInt(n) == [t |-> "int", v |-> n]

VList(xs) == [t |-> "list", v |-> xs]

VDict(ps) == [t |-> "dict", v |-> ps]

\* a normal return and a raised exception
Return(x) == [exc |-> FALSE, v |-> x]

Raise == [exc |-> TRUE]


(***************************************************************************)
(* SigmaToSumoLogicConverter.__init__: the two mapping tables              *)
(***************************************************************************)
FieldMappingsInit ==
  << <<<<"E","v","e","n","t","I","D">>,
       <<"e","v","e","n","t","i","d">>>>,
     <<<<"P","r","o","v","i","d","e","r","N","a","m","e">>,
       <<"%","\"","p","r","o","v","i","d","e","r",".","n","a","m","e","\"">>>>,
     <<<<"P","r","o","v","i","d","e","r","_","N","a","m","e">>,
       <<"%","\"","p","r","o","v","i","d","e","r",".","n","a","m","e","\"">>>>,
     <<<<"C","h","a","n","n","e","l">>,
       <<"_","s","o","u","r","c","e","N","a","m","e">>>>,
     <<<<"C","o","m","p","u","t","e","r">>,
       <<"_","s","o","u","r","c","e","H","o","s","t">>>>,
     <<<<"U","s","e","r","N","a","m","e">>,
       <<"u","s","e","r">>>>,
     <<<<"U","s","e","r">>,
       <<"u","s","e","r">>>>,
     <<<<"T","a","r","g","e","t","U","s","e","r","N","a","m","e">>,
       <<"%","\"","e","v","e","n","t",".","u","s","e","r",".","n","a","m","e","\"">>>>,
     <<<<"S","u","b","j","e","c","t","U","s","e","r","N","a","m","e">>,
       <<"%","\"","e","v","e","n","t",".","s","u","b","j","e","c","t",".","u","s","e","r",".","n","a","m","e","\"">>>>,
     <<<<"C","o","m","m","a","n","d","L","i","n","e">>,
       <<"c","o","m","m","a","n","d","l","i","n","e">>>>,
     <<<<"I","m","a","g","e">>,
       <<"i","m","a","g","e">>>>,
     <<<<"P","a","r","e","n","t","I","m","a","g","e">>,
       <<"p","a","r","e","n","t","_","i","m","a","g","e">>>>,
     <<<<"P","r","o","c","e","s","s","I","d">>,
       <<"p","r","o","c","e","s","s","_","i","d">>>>,
     <<<<"P","a","r","e","n","t","P","r","o","c","e","s","s","I","d">>,
       <<"p","a","r","e","n","t","_","p","r","o","c","e","s","s","_","i","d">>>>,
     <<<<"S","o","u","r","c","e","I","p">>,
       <<"s","r","c","_","i","p">>>>,
     <<<<"D","e","s","t","i","n","a","t","i","o","n","I","p">>,
       <<"d","e","s","t","_","i","p">>>>,
     <<<<"S","o","u","r","c","e","P","o","r","t">>,
       <<"s","r","c","_","p","o","r","t">>>>,
     <<<<"D","e","s","t","i","n","a","t","i","o","n","P","o","r","t">>,
       <<"d","e","s","t","_","p","o","r","t">>>> >>

k_sourceName == <<"_","s","o","u","r","c","e","N","a","m","e">>

LogsourceMappingsInit ==
  << <<<<"w","i","n","d","o","w","s">>,
        << <<<<"s","e","c","u","r","i","t","y">>,
           << <<k_sourceName, <<"S","e","c","u","r","i","t","y">>>> >> >>,
           <<<<"s","y","s","t","e","m">>,
           << <<k_sourceName, <<"S","y","s","t","e","m">>>> >> >>,
           <<<<"a","p","p","l","i","c","a","t","i","o","n">>,
           << <<k_sourceName, <<"A","p","p","l","i","c","a","t","i","o","n">>>> >> >>,
           <<<<"s","y","s","m","o","n">>,
           << <<k_sourceName, <<"S","y","s","m","o","n">>>> >> >>,
           <<<<"p","o","w","e","r","s","h","e","l","l">>,
           << <<k_sourceName, <<"P","o","w","e","r","S","h","e","l","l">>>> >> >>,
           <<<<"w","m","i">>,
           << <<k_sourceName, <<"W","M","I">>>> >> >> >> >>,
     <<<<"l","i","n","u","x">>,
        << <<<<"a","u","d","i","t","d">>,
           << <<k_sourceName, <<"a","u","d","i","t","d">>>> >> >>,
           <<<<"s","y","s","l","o","g">>,
           << <<k_sourceName, <<"s","y","s","l","o","g">>>> >> >>,
           <<<<"a","u","t","h">>,
           << <<k_sourceName, <<"a","u","t","h">>>> >> >> >> >>,
     <<<<"c","l","o","u","d">>,
        << <<<<"a","w","s">>,
           << <<k_sourceName, <<"a","w","s">>>> >> >>,
           <<<<"a","z","u","r","e">>,
           << <<k_sourceName, <<"a","z","u","r","e">>>> >> >>,
           <<<<"g","c","p">>,
           << <<k_sourceName, <<"g","c","p">>>> >> >> >> >> >>

(***************************************************************************)
(* String constants of the sources                                         *)
(***************************************************************************)
s_product == <<"p","r","o","d","u","c","t">>

s_category == <<"c","a","t","e","g","o","r","y">>

s_service == <<"s","e","r","v","i","c","e">>

s_windows == <<"w","i","n","d","o","w","s">>

s_Windows == <<"W","i","n","d","o","w","s">>

s_linux == <<"l","i","n","u","x">>

s_nonexistent == <<"n","o","n","e","x","i","s","t","e","n","t">>

s_security == <<"s","e","c","u","r","i","t","y">>

s_Sysmon == <<"S","y","s","m","o","n">>

s_auditd == <<"a","u","d","i","t","d">>

s_bogus == <<"b","o","g","u","s">>

s_sysmon == <<"s","y","s","m","o","n">>

s_syslog == <<"s","y","s","l","o","g">>

s_index_any == <<"_","i","n","d","e","x","=","*">>

(***************************************************************************)
(* sigma_to_sumologic.py: field mapper and logsource resolver              *)
(***************************************************************************)
\* a convert_field_name whose fallback forgets to lowercase the name
convert_field_name_NoLower(sigma_field) ==
  IF DictHas(field_mappings, sigma_field)
    THEN DictGet(field_mappings, sigma_field)
    ELSE sigma_field

\* convert_field_name(sigma_field), sigma_field a str
convert_field_name(sigma_field) ==
  IF DictHas(field_mappings, sigma_field)
    THEN DictGet(field_mappings, sigma_field)
    ELSE StrLower(sigma_field)

\* logsource.get(key, '') on the parsed logsource mapping
LogsourceGet(logsource, key) ==
  IF DictHas(logsource.v, key) THEN DictGet(logsource.v, key) ELSE VStr(<<>>)

\* a `filters` list that tries the service before the category
LogsourceFilters_ServiceFirst(product, category, service) ==
  IF DictHas(logsource_mappings, product)
    THEN LET under == DictGet(logsource_mappings, product)
             Fragments(source_mapping) ==
               [i \in 1..Len(source_mapping) |->
                  source_mapping[i][1] \o <<"=">> \o source_mapping[i][2]]
         IN  IF service # <<>> /\ DictHas(under, service)
               THEN Fragments(DictGet(under, service))
             ELSE IF category # <<>> /\ DictHas(under, category)
               THEN Fragments(DictGet(under, category))
             ELSE <<>>
    ELSE <<>>

\* the `filters` list built by get_logsource_filter from lowercased strings
LogsourceFilters(product, category, service) ==
  IF DictHas(logsource_mappings, product)
    THEN LET under == DictGet(logsource_mappings, product)
             Fragments(source_mapping) ==
               [i \in 1..Len(source_mapping) |->
                  source_mapping[i][1] \o <<"=">> \o source_mapping[i][2]]
         IN  IF category # <<>> /\ DictHas(under, category)
               THEN Fragments(DictGet(under, category))
             ELSE IF service # <<>> /\ DictHas(under, service)
               THEN Fragments(DictGet(under, service))
             ELSE <<>>
    ELSE <<>>

\* get_logsource_filter(logsource): .get on a non-mapping and .lower() on a
\* non-string raise AttributeError
get_logsource_filter(logsource) ==
  IF logsource.t # "dict" THEN Raise
  ELSE LET p == LogsourceGet(logsource, s_product)
           c == LogsourceGet(logsource, s_category)
           s == LogsourceGet(logsource, s_service)
       IN  IF p.t # "str" \/ c.t # "str" \/ s.t # "str" THEN Raise
           ELSE LET filters ==
                      LogsourceFilters(StrLower(p.v), StrLower(c.v), StrLower(s.v))
                IN  Return(IF filters # <<>> THEN Join(<<" ">>, filters)
                                            ELSE s_index_any)

(***************************************************************************)
(* sigma_to_sumologic.py: value encoder, selection builder, condition      *)
(***************************************************************************)
RECURSIVE Digits(_)
\* the decimal digits of a natural number
Digits(n) ==
  IF n < 10 THEN <<DigitChars[n + 1]>>
  ELSE Digits(n \div 10) \o <<DigitChars[(n % 10) + 1]>>

\* str(n) for an int
IntToStr(n) == IF n < 0 THEN <<"-">> \o Digits(-n) ELSE Digits(n)

RECURSIVE EscapeQuote(_)
\* repr() of a str between single quotes: backslash and ' are escaped
EscapeQuote(s) ==
  IF s = <<>> THEN <<>>
  ELSE (IF Head(s) \in {"'", "\\"} THEN <<"\\", Head(s)>> ELSE <<Head(s)>>)
         \o EscapeQuote(Tail(s))

RECURSIVE EscapeBackslash(_)
\* repr() of a str between double quotes: only the backslash is escaped
EscapeBackslash(s) ==
  IF s = <<>> THEN <<>>
  ELSE (IF Head(s) = "\\" THEN <<"\\", "\\">> ELSE <<Head(s)>>)
         \o EscapeBackslash(Tail(s))

RECURSIVE PyRepr(_)
\* repr(value) of a parsed YAML value made of printable ASCII
PyRepr(value) ==
  CASE value.t = "none" -> <<"N","o","n","e">>
    [] value.t = "int"  -> IntToStr(value.v)
    [] value.t = "str"  ->
         IF "'" \in Range(value.v) /\ "\"" \notin Range(value.v)
           THEN <<"\"">> \o EscapeBackslash(value.v) \o <<"\"">>
           ELSE <<"'">> \o EscapeQuote(value.v) \o <<"'">>
    [] value.t = "list" ->
         <<"[">> \o Join(<<",", " ">>,
                         [i \in 1..Len(value.v) |-> PyRepr(value.v[i])])
                 \o <<"]">>
    [] value.t = "dict" ->
         <<"{">> \o Join(<<",", " ">>,
                         [i \in 1..Len(value.v) |->
                            PyRepr(VStr(value.v[i][1])) \o <<":", " ">>
                              \o PyRepr(value.v[i][2])])
                 \o <<"}">>

\* str(value), which is what an f-string interpolates
PyStr(value) == IF value.t = "str" THEN value.v ELSE PyRepr(value)

RECURSIVE convert_value(_)
\* convert_value(value)
convert_value(value) ==
  CASE value.t = "str"  -> <<"\"">> \o value.v \o <<"\"">>
    [] value.t = "int"  -> IntToStr(value.v)
    [] value.t = "list" ->
         Join(<<" ","O","R"," ">>,
              [i \in 1..Len(value.v) |-> convert_value(value.v[i])])
    [] OTHER -> PyStr(value)

s_contains == <<"c","o","n","t","a","i","n","s">>

s_startswith == <<"s","t","a","r","t","s","w","i","t","h">>

s_endswith == <<"e","n","d","s","w","i","t","h">>

s_matches == <<" ","m","a","t","c","h","e","s"," ","\"">>

s_eq == <<" ","="," ">>

s_where == <<" ","|"," ","w","h","e","r","e"," ">>

\* a condition that puts the wildcard of an endswith modifier after the text
FieldCondition_EndswithSuffix(field, value) ==
  LET sumo_field == convert_field_name(field)
  IN  CASE value.t = "list" ->
             <<"(">> \o Join(<<" ","O","R"," ">>,
                             [i \in 1..Len(value.v) |->
                                sumo_field \o s_eq \o convert_value(value.v[i])])
                     \o <<")">>
        [] value.t = "dict" ->
             IF DictHas(value.v, s_contains)
               THEN sumo_field \o s_matches \o <<"*">>
                      \o PyStr(DictGet(value.v, s_contains)) \o <<"*", "\"">>
             ELSE IF DictHas(value.v, s_startswith)
               THEN sumo_field \o s_matches
                      \o PyStr(DictGet(value.v, s_startswith)) \o <<"*", "\"">>
             ELSE IF DictHas(value.v, s_endswith)
               THEN sumo_field \o s_matches
                      \o PyStr(DictGet(value.v, s_endswith)) \o <<"*", "\"">>
             ELSE sumo_field \o s_eq \o convert_value(value)
        [] OTHER -> sumo_field \o s_eq \o convert_value(value)

\* the condition build_selection_query appends for one field of a selection
FieldCondition(field, value) ==
  LET sumo_field == convert_field_name(field)
  IN  CASE value.t = "list" ->
             <<"(">> \o Join(<<" ","O","R"," ">>,
                             [i \in 1..Len(value.v) |->
                                sumo_field \o s_eq \o convert_value(value.v[i])])
                     \o <<")">>
        [] value.t = "dict" ->
             IF DictHas(value.v, s_contains)
               THEN sumo_field \o s_matches \o <<"*">>
                      \o PyStr(DictGet(value.v, s_contains)) \o <<"*", "\"">>
             ELSE IF DictHas(value.v, s_startswith)
               THEN sumo_field \o s_matches
                      \o PyStr(DictGet(value.v, s_startswith)) \o <<"*", "\"">>
             ELSE IF DictHas(value.v, s_endswith)
               THEN sumo_field \o s_matches \o <<"*">>
                      \o PyStr(DictGet(value.v, s_endswith)) \o <<"\"">>
             ELSE sumo_field \o s_eq \o convert_value(value)
        [] OTHER -> sumo_field \o s_eq \o convert_value(value)

\* build_selection_query(selection), selection the pairs of a mapping
build_selection_query(selection) ==
  LET conditions ==
        [i \in 1..Len(selection) |->
           FieldCondition(selection[i][1], selection[i][2])]
  IN  IF conditions # <<>>
        THEN s_where \o Join(<<" ","A","N","D"," ">>, conditions)
        ELSE <<>>

s_condition == <<"c","o","n","d","i","t","i","o","n">>

\* Python's `key in condition` for a str key: a substring test on a str,
\* membership in a list, a key test on a dict; TypeError on None or an int
KeyInRaises(condition) == condition.t \in {"none", "int"}

KeyIn(key, condition) ==
  CASE condition.t = "str"  -> StrContains(condition.v, key)
    [] condition.t = "list" ->
         \E i \in 1..Len(condition.v) : condition.v[i] = VStr(key)
    [] condition.t = "dict" -> DictHas(condition.v, key)
    [] OTHER -> FALSE

\* the `selections` list of parse_condition: the keys of detection, in the
\* order of the mapping, that are not 'condition' and are `in condition`
ReferencedSelections(condition, detection) ==
  SelectSeq(DictKeys(detection),
            LAMBDA key : key # s_condition /\ KeyIn(key, condition))

\* parse_condition(condition, detection), detection the pairs of a mapping
parse_condition(condition, detection) ==
  IF KeyInRaises(condition)
       /\ \E i \in 1..Len(detection) : detection[i][1] # s_condition
    THEN Raise
    ELSE LET selections == ReferencedSelections(condition, detection)
             dicts == SelectSeq(selections,
                                LAMBDA name : DictGet(detection, name).t = "dict")
             query_parts ==
               [i \in 1..Len(dicts) |->
                  build_selection_query(DictGet(detection, dicts[i]).v)]
         IN  Return(Concat(query_parts))

(***************************************************************************)
(* validate_sigma.py: detection check                                      *)
(***************************************************************************)
IsWordChar(c) ==
  c \in Range(UpperChars) \cup Range(LowerChars) \cup Range(DigitChars) \cup {"_"}

RECURSIVE WordRuns(_, _)
\* the maximal runs of word characters of s, left to right; cur is the run
\* being read
WordRuns(s, cur) ==
  IF s = <<>> THEN (IF cur = <<>> THEN <<>> ELSE <<cur>>)
  ELSE IF IsWordChar(Head(s)) THEN WordRuns(Tail(s), Append(cur, Head(s)))
  ELSE (IF cur = <<>> THEN <<>> ELSE <<cur>>) \o WordRuns(Tail(s), <<>>)

\* re.findall(r'\b(\w+)\b', condition)
FindWords(condition) == WordRuns(condition, <<>>)

\* the logic keywords validate_detection skips
LogicKeywords ==
  {<<"a","n","d">>,
   <<"o","r">>,
   <<"n","o","t">>,
   <<"o","f">>,
   <<"a","l","l">>,
   <<"1">>}

e_detection_not_dict == <<"d","e","t","e","c","t","i","o","n"," ","m","u","s","t"," ","b","e"," ","a"," ","d","i","c","t","i","o","n","a","r","y">>

e_no_condition ==
  <<"d","e","t","e","c","t","i","o","n"," ","m","u","s","t"," ","c","o","n","t","a","i","n"," ","'","c","o","n","d","i","t","i","o","n","'"," ","f","i","e","l","d">>

e_no_selection ==
  <<"d","e","t","e","c","t","i","o","n"," ","m","u","s","t"," ","c","o","n","t","a","i","n"," ","a","t"," ","l","e","a","s","t"," ","o","n","e"," ","s","e","l","e","c","t","i","o","n">>

\* f"Condition references '{ref}' but no such selection exists"
w_dangling(ref) ==
  <<"C","o","n","d","i","t","i","o","n"," ","r","e","f","e","r","e","n","c","e","s"," ","'">>
    \o ref \o <<"'"," ","b","u","t"," ","n","o"," ","s","u","c","h"," ","s","e","l","e","c","t","i","o","n"," ","e","x","i","s","t","s">>

\* validate_detection(detection): the returned validity (or the TypeError
\* re.findall raises on a condition that is no str) and what the call
\* appends to self.errors and self.warnings
validate_detection(detection) ==
  IF detection.t # "dict"
    THEN [exc |-> FALSE, v |-> FALSE,
          errors |-> <<e_detection_not_dict>>, warnings |-> <<>>]
    ELSE
      LET has_condition == DictHas(detection.v, s_condition)
          selection_keys ==
            SelectSeq(DictKeys(detection.v), LAMBDA k : k # s_condition)
          errs == (IF ~has_condition THEN <<e_no_condition>> ELSE <<>>)
                    \o (IF selection_keys = <<>> THEN <<e_no_selection>> ELSE <<>>)
      IN  IF ~has_condition
            THEN [exc |-> FALSE, v |-> FALSE, errors |-> errs, warnings |-> <<>>]
          ELSE IF DictGet(detection.v, s_condition).t # "str"
            THEN [exc |-> TRUE, v |-> FALSE, errors |-> errs, warnings |-> <<>>]
          ELSE
            LET referenced_selections ==
                  FindWords(DictGet(detection.v, s_condition).v)
                dangling ==
                  SelectSeq(referenced_selections,
                            LAMBDA ref : /\ ref \notin LogicKeywords
                                         /\ ~DictHas(detection.v, ref))
            IN  [exc |-> FALSE, v |-> (errs = <<>>), errors |-> errs,
                 warnings |-> [i \in 1..Len(dangling) |-> w_dangling(dangling[i])]]

(***************************************************************************)
(* Inputs of the function-level specification                              *)
(***************************************************************************)
MaxNameLen == 4

NameAlphabet == {"U", "u", "s", "e", "r"}

\* every string over NameAlphabet of at most MaxNameLen characters, and
\* every key of the field table with its lowercase and uppercase spelling
FieldNames ==
  UNION { [1..k -> NameAlphabet] : k \in 0..MaxNameLen }
    \cup UNION { {FieldMappingsInit[i][1],
                  StrLower(FieldMappingsInit[i][1]),
                  StrUpper(FieldMappingsInit[i][1])} :
                 i \in 1..Len(FieldMappingsInit) }

Absent == [t |-> "absent"]

Products ==
  {Absent, VNone, VStr(<<>>), VStr(s_windows), VStr(s_Windows), VStr(s_linux),
   VStr(s_nonexistent)}

Categories ==
  {Absent, VStr(<<>>), VStr(s_security), VStr(s_Sysmon), VStr(s_auditd),
   VStr(s_bogus)}

Services ==
  {Absent, VStr(s_sysmon), VStr(s_security), VStr(s_syslog), VStr(s_bogus)}

\* the mapping holding the keys that are present, in the order given
MkDict(pairs) ==
  VDict(SelectSeq(pairs, LAMBDA kv : kv[2] # Absent))

Logsources ==
  { MkDict(<< <<s_product, p>>, <<s_category, c>>, <<s_service, s>> >>) :
      p \in Products, c \in Categories, s \in Services }

MaxCondWords == 3

MaxSelections == 2

s_sel == <<"s","e","l">>

s_sel2 == <<"s","e","l","2">>

s_flt == <<"f","l","t">>

s_not == <<"n","o","t">>

\* the words a condition is written with: selection names, one of them a
\* prefix of another, a keyword, and the word `condition`
CondWords == {s_sel, s_sel2, s_flt, s_not, s_condition}

\* the conditions of at most MaxCondWords words separated by one space
Conditions ==
  { Join(<<" ">>, ws) :
      ws \in UNION { [1..k -> CondWords] : k \in 0..MaxCondWords } }

\* the selection each name stands for when it is declared
SelectionOf(name) ==
  CASE name = s_sel  -> VDict(<< <<<<"E","v","e","n","t","I","D">>, VInt(4625)>> >>)
    [] name = s_sel2 -> VDict(<< <<<<"I","m","a","g","e">>,
                                  VDict(<< <<s_endswith, VStr(<<".","e","x","e">>)>> >>)>> >>)
    [] name = s_flt  -> VDict(<< <<<<"U","s","e","r">>, VStr(<<"a","d","m","i","n">>)>> >>)
    [] name = s_not  -> VDict(<< <<<<"C","h","a","n","n","e","l">>, VStr(<<"S","y","s","t","e","m">>)>> >>)

SelectionNames == {s_sel, s_sel2, s_flt, s_not}

\* every order of at most MaxSelections distinct selection names
SelectionOrders ==
  { ks \in UNION { [1..k -> SelectionNames] : k \in 0..MaxSelections } :
      \A i, j \in 1..Len(ks) : i # j => ks[i] # ks[j] }

\* the detection mapping declaring the selections ks in that order, then
\* the condition c
Detection(ks, c) ==
  VDict([i \in 1..Len(ks) |-> <<ks[i], SelectionOf(ks[i])>>]
          \o << <<s_condition, VStr(c)>> >>)

\* the calls the function-level specification starts from
IsFnCall(c) ==
  \/ \E l \in Logsources : c = [fn |-> "get_logsource_filter", x |-> l]
  \/ \E n \in FieldNames : c = [fn |-> "convert_field_name", x |-> VStr(n)]

\* the calls the condition-level specification starts from
IsCondCall(c) ==
  \E ks \in SelectionOrders, cond \in Conditions :
    \/ c = [fn |-> "parse_condition", x |-> Detection(ks, cond)]
    \/ c = [fn |-> "validate_detection", x |-> Detection(ks, cond)]

(***************************************************************************)
(* Function-level specification: one call of one function                  *)
(***************************************************************************)
\* SigmaToSumoLogicConverter() and SigmaValidator() just constructed
Constructed ==
  /\ field_mappings = FieldMappingsInit
  /\ logsource_mappings = LogsourceMappingsInit
  /\ errors = <<>>
  /\ warnings = <<>>

\* no main is running
NoRun ==
  /\ input_kind = "invalid"
  /\ strict = FALSE
  /\ sigma_files = <<>>
  /\ idx = 0
  /\ success_count = 0
  /\ valid_count = 0
  /\ converted_rules = <<>>
  /\ out_files = <<>>
  /\ log = <<>>
  /\ exit_code = <<>>

InitFn ==
  /\ Constructed
  /\ NoRun
  /\ IsFnCall(call)
  /\ ret = VNone
  /\ pc = "call"

CallGetLogsourceFilter ==
  /\ pc = "call"
  /\ call.fn = "get_logsource_filter"
  /\ ret' = get_logsource_filter(call.x)
  /\ pc' = "done"
  /\ UNCHANGED <<tableVars, call, validatorVars, runVars>>

CallConvertFieldName ==
  /\ pc = "call"
  /\ call.fn = "convert_field_name"
  /\ ret' = Return(convert_field_name(call.x.v))
  /\ pc' = "done"
  /\ UNCHANGED <<tableVars, call, validatorVars, runVars>>

\* parse_condition(detection['condition'], detection), as
\* convert_sigma_to_sumologic calls it
CallParseCondition ==
  /\ pc = "call"
  /\ call.fn = "parse_condition"
  /\ ret' = parse_condition(DictGet(call.x.v, s_condition), call.x.v)
  /\ pc' = "done"
  /\ UNCHANGED <<tableVars, call, validatorVars, runVars>>

CallValidateDetection ==
  /\ pc = "call"
  /\ call.fn = "validate_detection"
  /\ LET r == validate_detection(call.x)
     IN  /\ ret' = (IF r.exc THEN Raise ELSE Return(r.v))
         /\ errors' = errors \o r.errors
         /\ warnings' = warnings \o r.warnings
  /\ pc' = "done"
  /\ UNCHANGED <<tableVars, call, runVars>>

NextFn ==
  \/ CallGetLogsourceFilter
  \/ CallConvertFieldName

SpecFn == InitFn /\ [][NextFn]_vars

(***************************************************************************)
(* Condition-level specification: one call of parse_condition or of        *)
(* validate_detection on a detection mapping                               *)
(***************************************************************************)
InitCond ==
  /\ Constructed
  /\ NoRun
  /\ IsCondCall(call)
  /\ ret = VNone
  /\ pc = "call"

NextCond ==
  \/ CallParseCondition
  \/ CallValidateDetection

SpecCond == InitCond /\ [][NextCond]_vars


(***************************************************************************)
(* C7: logsource precedence                                                *)
(***************************************************************************)
\* the call's logsource holds strings only (each key present or absent)
StringValued(logsource) ==
  \A i \in 1..Len(logsource.v) : logsource.v[i][2].t = "str"

\* the lowercased value of a logsource key, empty when the key is absent
Lowered(logsource, key) == StrLower(LogsourceGet(logsource, key).v)

\* name is present and mapped under product in the table of __init__
MappedUnder(product, name) ==
  /\ name # <<>>
  /\ DictHas(LogsourceMappingsInit, product)
  /\ DictHas(DictGet(LogsourceMappingsInit, product), name)

\* the fragment the table of __init__ maps for name under product
FragmentOf(product, name) ==
  LET m == DictGet(DictGet(LogsourceMappingsInit, product), name)
  IN  Join(<<" ">>, [i \in 1..Len(m) |-> m[i][1] \o <<"=">> \o m[i][2]])

\* C7: for every string-valued logsource get_logsource_filter returns,
\* without raising, the category's fragment when the category is mapped
\* under the product, else the service's fragment when the service is
\* mapped under the product, else the wildcard _index=*.
C7_LogsourcePrecedence ==
  (pc = "done" /\ call.fn = "get_logsource_filter" /\ StringValued(call.x)) =>
    LET product  == Lowered(call.x, s_product)
        category == Lowered(call.x, s_category)
        service  == Lowered(call.x, s_service)
    IN  ret = Return(IF MappedUnder(product, category)
                       THEN FragmentOf(product, category)
                     ELSE IF MappedUnder(product, service)
                       THEN FragmentOf(product, service)
                     ELSE s_index_any)

\* product windows with category security and service sysmon both mapped:
\* the category's fragment was returned
C7_Witness ==
  /\ pc = "done"
  /\ call.fn = "get_logsource_filter"
  /\ call.x = VDict(<< <<s_product, VStr(s_windows)>>,
                      <<s_category, VStr(s_security)>>,
                      <<s_service, VStr(s_sysmon)>> >>)
  /\ ret = Return(<<"_","s","o","u","r","c","e","N","a","m","e","=","S","e","c","u","r","i","t","y">>)

(***************************************************************************)
(* C8: field mapping                                                       *)
(***************************************************************************)
\* what the claim says convert_field_name returns for name
MappedOrLowered(name) ==
  IF DictHas(FieldMappingsInit, name)
    THEN DictGet(FieldMappingsInit, name)
    ELSE StrLower(name)

SelectionKeys(detection) ==
  { detection[i][1] : i \in 1..Len(detection) } \ {s_condition}

\* S is a declared selection, no reserved keyword, and a whole word of the
\* condition
TokenReferenced(S, condition, detection) ==
  /\ S \in SelectionKeys(detection)
  /\ S \notin LogicKeywords
  /\ S \in Range(FindWords(condition))

\* the clause of the declared selection S
ClauseOf(S, detection) == build_selection_query(DictGet(detection, S).v)

\* C1 as stated, for the selections whose name is no reserved keyword:
\* parse_condition includes the clause of a selection S if and only if S is
\* a key of detection other than `condition` and S occurs in the condition
\* as a whole word, not merely inside a longer word.
C1_Original ==
  (pc = "done" /\ call.fn = "parse_condition") =>
    LET detection == call.x.v
        condition == DictGet(detection, s_condition).v
    IN  \A S \in SelectionKeys(detection) \ LogicKeywords :
          StrContains(ret.v, ClauseOf(S, detection))
            <=> TokenReferenced(S, condition, detection)

RECURSIVE FirstOccurrences(_, _)
\* the words of ws that satisfy Keep, each once, in the order of their first
\* occurrence; seen holds the words already taken
FirstOccurrences(ws, seen) ==
  IF ws = <<>> THEN <<>>
  ELSE IF Head(ws) \in seen THEN FirstOccurrences(Tail(ws), seen)
  ELSE <<Head(ws)>> \o FirstOccurrences(Tail(ws), seen \cup {Head(ws)})

\* the referenced selections in the order of their first appearance in the
\* condition
FirstAppearance(condition, detection) ==
  FirstOccurrences(
    SelectSeq(FindWords(condition),
              LAMBDA w : TokenReferenced(w, condition, detection)),
    {})

\* C2 as stated, for the calls in which the code picks exactly the
\* selections the condition names as whole words: the query is the
\* concatenation of their clauses in the order of first appearance in the
\* condition, one clause each, whatever the order of the keys of detection.
C2_Original ==
  (/\ pc = "done"
   /\ call.fn = "parse_condition"
   /\ LET detection == call.x.v
          condition == DictGet(detection, s_condition)
      IN  Range(ReferencedSelections(condition, detection))
            = Range(FirstAppearance(condition.v, detection))) =>
    LET detection == call.x.v
        order == FirstAppearance(DictGet(detection, s_condition).v, detection)
    IN  ret = Return(Concat([i \in 1..Len(order) |->
                               ClauseOf(order[i], detection)]))

(***************************************************************************)
(* C3: dangling references of the condition                                *)
(***************************************************************************)
\* C3 as stated: validate_detection warns of exactly the words of the
\* condition that are neither a reserved keyword nor a selection key (a key
\* other than `condition`), one warning per such word; a dangling reference
\* adds no error and leaves the returned validity as it is.
C3_Original ==
  (pc = "done" /\ call.fn = "validate_detection") =>
    LET detection == call.x.v
        condition == DictGet(detection, s_condition).v
        dangling ==
          SelectSeq(FindWords(condition),
                    LAMBDA ref : /\ ref \notin LogicKeywords
                                 /\ ref \notin SelectionKeys(detection))
    IN  /\ warnings = [i \in 1..Len(dangling) |-> w_dangling(dangling[i])]
        /\ errors = (IF SelectionKeys(detection) = {}
                       THEN <<e_no_selection>> ELSE <<>>)
        /\ ret = Return(errors = <<>>)

(***************************************************************************)
(* sigma_to_sumologic.py: monitor assembly, rendering, convert_file, main  *)
(***************************************************************************)
s_title == <<"t","i","t","l","e">>

s_description == <<"d","e","s","c","r","i","p","t","i","o","n">>

s_level == <<"l","e","v","e","l">>

s_tags == <<"t","a","g","s">>

s_detection == <<"d","e","t","e","c","t","i","o","n">>

s_logsource == <<"l","o","g","s","o","u","r","c","e">>

s_generic == <<"g","e","n","e","r","i","c">>

s_secops == <<"s","e","c","o","p","s">>

s_medium == <<"m","e","d","i","u","m">>

s_critical == <<"c","r","i","t","i","c","a","l">>

s_high == <<"h","i","g","h">>

s_low == <<"l","o","w">>

s_informational == <<"i","n","f","o","r","m","a","t","i","o","n","a","l">>

s_untitled == <<"U","n","t","i","t","l","e","d"," ","D","e","t","e","c","t","i","o","n">>

s_attack_t == <<"a","t","t","a","c","k",".","t">>

s_selection == <<"s","e","l","e","c","t","i","o","n">>

s_filter == <<"f","i","l","t","e","r">>

s_unknown == <<"u","n","k","n","o","w","n">>

s_attack_dot == <<"a","t","t","a","c","k",".">>

\* d.get(key, default) on the pairs of a mapping
GetOr(d, key, default) == IF DictHas(d, key) THEN DictGet(d, key) ELSE default

RECURSIVE RemoveAll(_, _)
\* s.replace(sub, '') for a non-empty sub
RemoveAll(s, sub) ==
  IF s = <<>> THEN <<>>
  ELSE IF MatchAt(s, sub, 1)
    THEN RemoveAll(SubSeq(s, Len(sub) + 1, Len(s)), sub)
  ELSE <<Head(s)>> \o RemoveAll(Tail(s), sub)

\* s.replace(old, new) for one-character strings old and new
ReplaceChar(s, old, new) ==
  [i \in 1..Len(s) |-> IF s[i] = old THEN new ELSE s[i]]

\* the items `for tag in tags` visits: the elements of a list, the
\* characters of a str, the keys of a dict
TagItems(tags) ==
  CASE tags.t = "list" -> tags.v
    [] tags.t = "str"  -> [i \in 1..Len(tags.v) |-> VStr(<<tags.v[i]>>)]
    [] tags.t = "dict" -> [i \in 1..Len(tags.v) |-> VStr(tags.v[i][1])]
    [] OTHER -> <<>>

\* the loop over tags raises: TypeError on None or an int, AttributeError
\* on a tag that is no str
TagsRaise(tags) ==
  \/ tags.t \in {"none", "int"}
  \/ \E i \in 1..Len(TagItems(tags)) : TagItems(tags)[i].t # "str"

\* a ttp that keeps the case of the tag
MitreTtp_NoUpper(tags) ==
  LET items == TagItems(tags)
      hits == { i \in 1..Len(items) : StartsWith(items[i].v, s_attack_t) }
  IN  IF hits = {} THEN <<>>
      ELSE LET last == CHOOSE i \in hits : \A j \in hits : j <= i
           IN  RemoveAll(items[last].v, s_attack_dot)

\* mitre_tags.get('ttp', '') after the loop: the last tag that starts with
\* 'attack.t', with every 'attack.' removed, uppercased.  (The tactics the
\* loop collects are local and never read.)
MitreTtp(tags) ==
  LET items == TagItems(tags)
      hits == { i \in 1..Len(items) : StartsWith(items[i].v, s_attack_t) }
  IN  IF hits = {} THEN <<>>
      ELSE LET last == CHOOSE i \in hits : \A j \in hits : j <= i
           IN  StrUpper(RemoveAll(items[last].v, s_attack_dot))

\* severity_map.get(level, 0)
SeverityThreshold(level) ==
  IF level = VStr(s_low) THEN 1
  ELSE IF level = VStr(s_informational) THEN 2
  ELSE 0

\* convert_sigma_to_sumologic(sigma_rule): .get on a value that is no
\* mapping raises AttributeError, an unhashable level raises TypeError
convert_sigma_to_sumologic(sigma_rule) ==
  IF sigma_rule.t # "dict" THEN Raise
  ELSE
    LET title == GetOr(sigma_rule.v, s_title, VStr(s_untitled))
        description == GetOr(sigma_rule.v, s_description, VStr(<<>>))
        level == GetOr(sigma_rule.v, s_level, VStr(s_medium))
        tags == GetOr(sigma_rule.v, s_tags, VList(<<>>))
        detection == GetOr(sigma_rule.v, s_detection, VDict(<<>>))
        logsource == GetOr(sigma_rule.v, s_logsource, VDict(<<>>))
        base_query == get_logsource_filter(logsource)
    IN  IF base_query.exc \/ detection.t # "dict" THEN Raise
        ELSE
          LET condition == GetOr(detection.v, s_condition, VStr(<<>>))
              detection_query == parse_condition(condition, detection.v)
          IN  IF detection_query.exc \/ TagsRaise(tags)
                   \/ level.t \in {"list", "dict"}
                THEN Raise
                ELSE Return(
                  [name |-> title,
                   description |-> description,
                   query |-> base_query.v \o detection_query.v,
                   level |-> level,
                   tags |-> [ttp |-> MitreTtp(tags),
                             logsource |-> GetOr(logsource.v, s_product,
                                                 VStr(s_generic)),
                             owner |-> s_secops],
                   threshold |-> SeverityThreshold(level)])

\* generate_terraform(monitor_config, rule_id): the rendered text is the
\* concatenation of these pieces, the fixed text of the template and the
\* interpolated values in the order the template names them
generate_terraform(monitor_config, rule_id) ==
  << "# Sumo Logic Monitor Module\n# Provider configuration is inherited from root main.tf\n# This module only defines the monitor resource\n\nresource \"sumologic_monitor\" \"",
     rule_id,
     "\" {\n  name                      = \"",
     PyStr(monitor_config.name),
     "\"\n  description               = \"",
     PyStr(monitor_config.description),
     "\"\n  type                      = \"MonitorsLibraryMonitor\"\n  is_disabled               = false\n  monitor_type              = \"Logs\"\n  evaluation_delay          = \"0m\"\n  notification_group_fields = [\"_sourcehost\"]\n\n  tags = {\n    \"ttp\"       = \"",
     monitor_config.tags.ttp,
     "\"\n    \"logsource\" = \"",
     PyStr(monitor_config.tags.logsource),
     "\"\n    \"owner\"     = \"",
     monitor_config.tags.owner,
     "\"\n    \"level\"     = \"",
     PyStr(monitor_config.level),
     "\"\n  }\n\n  queries {\n    row_id = \"A\"\n    query  = \"",
     monitor_config.query,
     "\"\n  }\n\n  trigger_conditions {\n    logs_static_condition {\n      warning {\n        time_range = \"-15m\"\n        alert {\n          threshold      = ",
     IntToStr(monitor_config.threshold),
     "\n          threshold_type = \"GreaterThan\"\n        }\n        resolution {\n          threshold         = ",
     IntToStr(monitor_config.threshold),
     "\n          threshold_type    = \"LessThanOrEqual\"\n          resolution_window = \"15m\"\n        }\n      }\n    }\n  }\n\n  notifications {\n    notification {\n      connection_type = \"Email\"\n      recipients = [\n        \"secops@example.com\",\n      ]\n      subject      = \"Monitor Alert: {{TriggerType}} on {{Name}}\"\n      time_zone    = \"UTC\"\n      message_body = \"Triggered {{TriggerType}} Alert on {{Name}}: {{QueryURL}}\"\n    }\n    run_for_trigger_types = [\"Warning\"]\n  }\n}\n" >>

\* rule_id of convert_file: the stem with '-' and ' ' replaced by '_'
RuleIdOf(stem) == ReplaceChar(ReplaceChar(stem, "-", "_"), " ", "_")

(***************************************************************************)
(* The rule documents on disk                                              *)
(***************************************************************************)
PowerShellRule ==
  VDict(<< <<<<"t","i","t","l","e">>,
         VStr(<<"S","u","s","p","i","c","i","o","u","s"," ","P","o","w","e","r","S","h","e","l","l">>)>>,
       <<<<"l","e","v","e","l">>,
         VStr(<<"h","i","g","h">>)>>,
       <<<<"l","o","g","s","o","u","r","c","e">>,
         VDict(<< <<<<"p","r","o","d","u","c","t">>,
         VStr(<<"w","i","n","d","o","w","s">>)>>,
       <<<<"c","a","t","e","g","o","r","y">>,
         VStr(<<"p","o","w","e","r","s","h","e","l","l">>)>> >>)>>,
       <<<<"d","e","t","e","c","t","i","o","n">>,
         VDict(<< <<<<"s","e","l","e","c","t","i","o","n">>,
         VDict(<< <<<<"C","o","m","m","a","n","d","L","i","n","e">>,
         VList(<<VStr(<<"*","-","e","n","c","*">>), VStr(<<"*","-","E","n","c","o","d","e","d","C","o","m","m","a","n","d","*">>)>>)>> >>)>>,
       <<<<"c","o","n","d","i","t","i","o","n">>,
         VStr(<<"s","e","l","e","c","t","i","o","n">>)>> >>)>>,
       <<<<"t","a","g","s">>,
         VList(<<VStr(<<"a","t","t","a","c","k",".","t","1","0","5","9",".","0","0","1">>)>>)>> >>)

SshRule ==
  VDict(<< <<<<"t","i","t","l","e">>,
         VStr(<<"S","S","H"," ","l","o","g","i","n">>)>>,
       <<<<"d","e","s","c","r","i","p","t","i","o","n">>,
         VStr(<<"R","o","o","t"," ","l","o","g","i","n"," ","o","v","e","r"," ","S","S","H">>)>>,
       <<<<"l","e","v","e","l">>,
         VStr(<<"i","n","f","o","r","m","a","t","i","o","n","a","l">>)>>,
       <<<<"l","o","g","s","o","u","r","c","e">>,
         VDict(<< <<<<"p","r","o","d","u","c","t">>,
         VStr(<<"l","i","n","u","x">>)>>,
       <<<<"s","e","r","v","i","c","e">>,
         VStr(<<"a","u","t","h">>)>> >>)>>,
       <<<<"d","e","t","e","c","t","i","o","n">>,
         VDict(<< <<<<"f","i","l","t","e","r">>,
         VDict(<< <<<<"U","s","e","r">>,
         VStr(<<"a","d","m","i","n">>)>> >>)>>,
       <<<<"s","e","l","e","c","t","i","o","n">>,
         VDict(<< <<<<"E","v","e","n","t","I","D">>,
         VInt(4625)>>,
       <<<<"I","m","a","g","e">>,
         VDict(<< <<<<"e","n","d","s","w","i","t","h">>,
         VStr(<<"s","s","h","d">>)>> >>)>> >>)>>,
       <<<<"c","o","n","d","i","t","i","o","n">>,
         VStr(<<"s","e","l","e","c","t","i","o","n"," ","a","n","d"," ","n","o","t"," ","f","i","l","t","e","r">>)>> >>)>>,
       <<<<"t","a","g","s">>,
         VList(<<VStr(<<"a","t","t","a","c","k",".","t","1","1","1","0">>), VStr(<<"a","t","t","a","c","k",".","c","r","e","d","e","n","t","i","a","l","_","a","c","c","e","s","s">>)>>)>> >>)

NoConditionRule ==
  VDict(<< <<<<"t","i","t","l","e">>,
         VStr(<<"N","o"," ","c","o","n","d","i","t","i","o","n">>)>>,
       <<<<"l","e","v","e","l">>,
         VStr(<<"l","o","w">>)>>,
       <<<<"l","o","g","s","o","u","r","c","e">>,
         VDict(<< <<<<"p","r","o","d","u","c","t">>,
         VStr(<<"l","i","n","u","x">>)>>,
       <<<<"s","e","r","v","i","c","e">>,
         VStr(<<"a","u","d","i","t","d">>)>> >>)>>,
       <<<<"d","e","t","e","c","t","i","o","n">>,
         VDict(<< <<<<"s","e","l","e","c","t","i","o","n">>,
         VDict(<< <<<<"U","s","e","r">>,
         VStr(<<"r","o","o","t">>)>> >>)>> >>)>> >>)

EmptyDetectionRule ==
  VDict(<< <<<<"t","i","t","l","e">>,
         VStr(<<"E","m","p","t","y"," ","d","e","t","e","c","t","i","o","n">>)>>,
       <<<<"l","e","v","e","l">>,
         VStr(<<"m","e","d","i","u","m">>)>>,
       <<<<"l","o","g","s","o","u","r","c","e">>,
         VDict(<< <<<<"p","r","o","d","u","c","t">>,
         VStr(<<"w","i","n","d","o","w","s">>)>>,
       <<<<"s","e","r","v","i","c","e">>,
         VStr(<<"s","y","s","m","o","n">>)>> >>)>>,
       <<<<"d","e","t","e","c","t","i","o","n">>,
         VDict(<<  >>)>> >>)

NoSelectionRule ==
  VDict(<< <<<<"t","i","t","l","e">>,
         VStr(<<"N","o"," ","s","e","l","e","c","t","i","o","n">>)>>,
       <<<<"l","e","v","e","l">>,
         VStr(<<"c","r","i","t","i","c","a","l">>)>>,
       <<<<"l","o","g","s","o","u","r","c","e">>,
         VDict(<< <<<<"p","r","o","d","u","c","t">>,
         VStr(<<"c","l","o","u","d">>)>>,
       <<<<"s","e","r","v","i","c","e">>,
         VStr(<<"a","w","s">>)>> >>)>>,
       <<<<"d","e","t","e","c","t","i","o","n">>,
         VDict(<< <<<<"c","o","n","d","i","t","i","o","n">>,
         VStr(<<"s","e","l","e","c","t","i","o","n">>)>> >>)>> >>)

\* what yaml.safe_load raises YAMLError on
YamlError == [t |-> "yaml_error"]

\* a rule without logsource whose selection and filter hold a str, a list
\* and an int
NoLogsourceRule ==
  VDict(<< <<s_title, VStr(<<"N","o"," ","l","o","g","s","o","u","r","c","e">>)>>,
           <<s_detection,
             VDict(<< <<s_selection,
                        VDict(<< <<<<"I","m","a","g","e">>, VStr(<<"c","m","d",".","e","x","e">>)>>,
                                 <<<<"U","s","e","r">>, VList(<<VStr(<<"r","o","o","t">>), VStr(<<"a","d","m","i","n">>)>>)>>,
                                 <<<<"E","v","e","n","t","I","D">>, VInt(1)>> >>)>>,
                      <<s_filter,
                        VDict(<< <<<<"U","s","e","r">>, VStr(<<"s","v","c">>)>> >>)>>,
                      <<s_condition, VStr(<<"s","e","l","e","c","t","i","o","n"," ","a","n","d"," ","n","o","t"," ","f","i","l","t","e","r">>)>> >>)>> >>)

\* a rule with every required and recommended field
CleanRule ==
  VDict(<< <<<<"t","i","t","l","e">>,
           VStr(<<"E","n","c","o","d","e","d"," ","P","o","w","e","r","S","h","e","l","l">>)>>,
           <<<<"i","d">>,
           VStr(<<"1","2","3","4","5","6","7","8","-","1","2","3","4","-","1","2","3","4","-","1","2","3","4","-","1","2","3","4","5","6","7","8","9","a","b","c">>)>>,
           <<<<"s","t","a","t","u","s">>,
           VStr(<<"s","t","a","b","l","e">>)>>,
           <<<<"d","e","s","c","r","i","p","t","i","o","n">>,
           VStr(<<"E","n","c","o","d","e","d"," ","c","o","m","m","a","n","d"," ","l","i","n","e">>)>>,
           <<<<"a","u","t","h","o","r">>,
           VStr(<<"s","e","c","o","p","s">>)>>,
           <<<<"d","a","t","e">>,
           VStr(<<"2","0","2","4","/","0","1","/","0","1">>)>>,
           <<<<"r","e","f","e","r","e","n","c","e","s">>,
           VList(<<VStr(<<"h","t","t","p","s",":","/","/","a","t","t","a","c","k",".","m","i","t","r","e",".","o","r","g">>)>>)>>,
           <<<<"t","a","g","s">>,
           VList(<<VStr(<<"a","t","t","a","c","k",".","e","x","e","c","u","t","i","o","n">>),
                   VStr(<<"a","t","t","a","c","k",".","t","1","0","5","9",".","0","0","1">>)>>)>>,
           <<<<"l","o","g","s","o","u","r","c","e">>,
           VDict(<< <<<<"p","r","o","d","u","c","t">>,
                    VStr(<<"w","i","n","d","o","w","s">>)>>,
                    <<<<"c","a","t","e","g","o","r","y">>,
                    VStr(<<"p","o","w","e","r","s","h","e","l","l">>)>> >>)>>,
           <<<<"d","e","t","e","c","t","i","o","n">>,
           VDict(<< <<<<"s","e","l","e","c","t","i","o","n">>,
                    VDict(<< <<<<"C","o","m","m","a","n","d","L","i","n","e">>,
                             VList(<<VStr(<<"*","-","e","n","c","*">>)>>)>> >>)>>,
                    <<<<"c","o","n","d","i","t","i","o","n">>,
                    VStr(<<"s","e","l","e","c","t","i","o","n">>)>> >>)>>,
           <<<<"f","a","l","s","e","p","o","s","i","t","i","v","e","s">>,
           VList(<<VStr(<<"A","d","m","i","n","i","s","t","r","a","t","o","r","s">>)>>)>>,
           <<<<"l","e","v","e","l">>,
           VStr(<<"h","i","g","h">>)>> >>)

\* a valid rule that draws warnings only
WarnRule ==
  VDict(<< <<<<"t","i","t","l","e">>,
           VStr(<<"R","o","o","t"," ","l","o","g","i","n">>)>>,
           <<<<"i","d">>,
           VStr(<<"{","1","2","3","4","5","6","7","8","-","1","2","3","4","-","1","2","3","4","-","1","2","3","4","-","1","2","3","4","5","6","7","8","9","A","B","C","}">>)>>,
           <<<<"s","t","a","t","u","s">>,
           VStr(<<"t","e","s","t","i","n","g">>)>>,
           <<<<"d","e","s","c","r","i","p","t","i","o","n">>,
           VStr(<<"R","o","o","t"," ","l","o","g","i","n"," ","o","n"," ","a"," ","c","o","n","s","o","l","e">>)>>,
           <<<<"t","a","g","s">>,
           VList(<<VStr(<<"a","t","t","a","c","k",".","t","1","0">>),
                   VStr(<<"c","a","r",".","2","0","1","3">>)>>)>>,
           <<<<"l","o","g","s","o","u","r","c","e">>,
           VDict(<< <<<<"p","r","o","d","u","c","t">>,
                    VStr(<<"s","o","l","a","r","i","s">>)>> >>)>>,
           <<<<"d","e","t","e","c","t","i","o","n">>,
           VDict(<< <<<<"s","e","l">>,
                    VDict(<< <<<<"U","s","e","r">>,
                             VStr(<<"r","o","o","t">>)>> >>)>>,
                    <<<<"c","o","n","d","i","t","i","o","n">>,
                    VStr(<<"s","e","l"," ","a","n","d"," ","n","o","t"," ","f","l","t">>)>> >>)>>,
           <<<<"l","e","v","e","l">>,
           VStr(<<"l","o","w">>)>> >>)

\* CleanRule with an id that YAML reads as an int
IntIdRule ==
  VDict(<< <<<<"t","i","t","l","e">>,
           VStr(<<"E","n","c","o","d","e","d"," ","P","o","w","e","r","S","h","e","l","l">>)>>,
           <<<<"i","d">>,
           VInt(123)>>,
           <<<<"s","t","a","t","u","s">>,
           VStr(<<"s","t","a","b","l","e">>)>>,
           <<<<"d","e","s","c","r","i","p","t","i","o","n">>,
           VStr(<<"E","n","c","o","d","e","d"," ","c","o","m","m","a","n","d"," ","l","i","n","e">>)>>,
           <<<<"a","u","t","h","o","r">>,
           VStr(<<"s","e","c","o","p","s">>)>>,
           <<<<"d","a","t","e">>,
           VStr(<<"2","0","2","4","/","0","1","/","0","1">>)>>,
           <<<<"r","e","f","e","r","e","n","c","e","s">>,
           VList(<<VStr(<<"h","t","t","p","s",":","/","/","a","t","t","a","c","k",".","m","i","t","r","e",".","o","r","g">>)>>)>>,
           <<<<"t","a","g","s">>,
           VList(<<VStr(<<"a","t","t","a","c","k",".","e","x","e","c","u","t","i","o","n">>),
                   VStr(<<"a","t","t","a","c","k",".","t","1","0","5","9",".","0","0","1">>)>>)>>,
           <<<<"l","o","g","s","o","u","r","c","e">>,
           VDict(<< <<<<"p","r","o","d","u","c","t">>,
                    VStr(<<"w","i","n","d","o","w","s">>)>>,
                    <<<<"c","a","t","e","g","o","r","y">>,
                    VStr(<<"p","o","w","e","r","s","h","e","l","l">>)>> >>)>>,
           <<<<"d","e","t","e","c","t","i","o","n">>,
           VDict(<< <<<<"s","e","l","e","c","t","i","o","n">>,
                    VDict(<< <<<<"C","o","m","m","a","n","d","L","i","n","e">>,
                             VList(<<VStr(<<"*","-","e","n","c","*">>)>>)>> >>)>>,
                    <<<<"c","o","n","d","i","t","i","o","n">>,
                    VStr(<<"s","e","l","e","c","t","i","o","n">>)>> >>)>>,
           <<<<"f","a","l","s","e","p","o","s","i","t","i","v","e","s">>,
           VList(<<VStr(<<"A","d","m","i","n","i","s","t","r","a","t","o","r","s">>)>>)>>,
           <<<<"l","e","v","e","l">>,
           VStr(<<"h","i","g","h">>)>> >>)

\* a document that is a plain scalar
TextDocument ==
  VStr(<<"n","o","t"," ","a"," ","r","u","l","e">>)

\* the rule files on disk: <<path, name of the parsed content>>, a path the
\* directory tree, the directory in it, the stem and the suffix of the file.
\* The tree
\* rules is the input directory of the converter runs, incoming that of
\* the validator runs, sigma_rules is SIGMA_RULES_DIR of
\* convert_sigma_rules.py
Disk ==
  << <<[root |-> "rules", dir |-> "windows", stem |-> <<"p","s","-","e","n","c","o","d","e","d">>, ext |-> "yml"], "PowerShellRule">>,
     <<[root |-> "rules", dir |-> "archive", stem |-> <<"p","s","-","e","n","c","o","d","e","d">>, ext |-> "yml"], "PowerShellRule">>,
     <<[root |-> "rules", dir |-> "linux", stem |-> <<"s","s","h"," ","l","o","g","i","n">>, ext |-> "yaml"], "SshRule">>,
     <<[root |-> "rules", dir |-> "linux", stem |-> <<"n","o","-","c","o","n","d","i","t","i","o","n">>, ext |-> "yml"], "NoConditionRule">>,
     <<[root |-> "rules", dir |-> "windows", stem |-> <<"e","m","p","t","y","_","d","e","t","e","c","t","i","o","n">>, ext |-> "yml"], "EmptyDetectionRule">>,
     <<[root |-> "rules", dir |-> "cloud", stem |-> <<"n","o","_","s","e","l","e","c","t","i","o","n">>, ext |-> "yaml"], "NoSelectionRule">>,
     <<[root |-> "rules", dir |-> "cloud", stem |-> <<"e","m","p","t","y">>, ext |-> "yml"], "VNone">>,
     <<[root |-> "rules", dir |-> "cloud", stem |-> <<"b","r","o","k","e","n">>, ext |-> "yml"], "YamlError">>,
     <<[root |-> "sigma_rules", dir |-> "", stem |-> <<"p","s","-","e","n","c","o","d","e","d">>, ext |-> "yml"], "PowerShellRule">>,
     <<[root |-> "sigma_rules", dir |-> "", stem |-> <<"s","s","h","-","l","o","g","i","n">>, ext |-> "yml"], "SshRule">>,
     <<[root |-> "sigma_rules", dir |-> "", stem |-> <<"s","s","h","-","l","o","g","i","n">>, ext |-> "yaml"], "NoSelectionRule">>,
     <<[root |-> "sigma_rules", dir |-> "", stem |-> <<"n","o","-","l","o","g","s","o","u","r","c","e">>, ext |-> "yml"], "NoLogsourceRule">>,
     <<[root |-> "sigma_rules", dir |-> "", stem |-> <<"e","m","p","t","y">>, ext |-> "yaml"], "VNone">>,
     <<[root |-> "incoming", dir |-> "", stem |-> <<"c","l","e","a","n">>, ext |-> "yml"], "CleanRule">>,
     <<[root |-> "incoming", dir |-> "", stem |-> <<"p","s","-","e","n","c","o","d","e","d">>, ext |-> "yml"], "PowerShellRule">>,
     <<[root |-> "incoming", dir |-> "", stem |-> <<"w","a","r","n">>, ext |-> "yaml"], "WarnRule">>,
     <<[root |-> "incoming", dir |-> "", stem |-> <<"e","m","p","t","y">>, ext |-> "yml"], "VNone">>,
     <<[root |-> "incoming", dir |-> "", stem |-> <<"t","e","x","t">>, ext |-> "yml"], "TextDocument">>,
     <<[root |-> "incoming", dir |-> "", stem |-> <<"i","n","t","-","i","d">>, ext |-> "yaml"], "IntIdRule">>,
     <<[root |-> "incoming", dir |-> "", stem |-> <<"b","r","o","k","e","n">>, ext |-> "yml"], "YamlError">> >>

\* the parsed content of a file, by the name the disk gives it
Document(name) ==
  CASE name = "PowerShellRule" -> PowerShellRule
    [] name = "SshRule" -> SshRule
    [] name = "NoConditionRule" -> NoConditionRule
    [] name = "EmptyDetectionRule" -> EmptyDetectionRule
    [] name = "NoSelectionRule" -> NoSelectionRule
    [] name = "VNone" -> VNone
    [] name = "YamlError" -> YamlError
    [] name = "NoLogsourceRule" -> NoLogsourceRule
    [] name = "CleanRule" -> CleanRule
    [] name = "WarnRule" -> WarnRule
    [] name = "TextDocument" -> TextDocument
    [] name = "IntIdRule" -> IntIdRule

SIGMA_RULES_DIR == "sigma_rules"

\* the rule files of a directory tree
FilesUnder(root) == { f \in Range(DictKeys(Disk)) : f.root = root }

\* the rule files under the input directory of the converter
RuleFiles == FilesUnder("rules")

\* yaml.safe_load of the file at path
SafeLoad(path) == Document(DictGet(Disk, path))

\* convert_file(sigma_file, output_dir): what it returns and, when it
\* returns True, the text of {rule_id}.tf and the content of metadata.json
\* it wrote under tf-{rule_id}
convert_file(sigma_file) ==
  LET sigma_rule == SafeLoad(sigma_file)
  IN  IF sigma_rule = YamlError THEN [ok |-> FALSE]
      ELSE LET monitor_config == convert_sigma_to_sumologic(sigma_rule)
               rule_id == RuleIdOf(sigma_file.stem)
           IN  IF monitor_config.exc THEN [ok |-> FALSE]
               ELSE [ok |-> TRUE,
                     rule_id |-> rule_id,
                     tf |-> generate_terraform(monitor_config.v, rule_id),
                     metadata |-> monitor_config.v]

\* d[key] = value on the pairs of a mapping
DictPut(d, key, value) ==
  IF DictHas(d, key)
    THEN [i \in 1..Len(d) |-> IF d[i][1] = key THEN <<key, value>> ELSE d[i]]
    ELSE Append(d, <<key, value>>)

\* the output directory after convert_file returned r
OutFilesAfter(r) ==
  IF r.ok THEN DictPut(out_files, r.rule_id, [tf |-> r.tf, metadata |-> r.metadata])
          ELSE out_files

(***************************************************************************)
(* Converter run: sigma_to_sumologic.main                                  *)
(***************************************************************************)
MaxFiles == 3

\* list(rglob('*.yml')) + list(rglob('*.yaml')) over some of the files: at
\* most MaxFiles files, each once, those of the first pattern first, in
\* the order the file system lists them
GlobLists(files) ==
  { fs \in UNION { [1..k -> files] : k \in 0..MaxFiles } :
      /\ \A i, j \in 1..Len(fs) : i # j => fs[i] # fs[j]
      /\ \A i, j \in 1..Len(fs) :
           (fs[i].ext = "yaml" /\ fs[j].ext = "yml") => j < i }

FileLists == GlobLists(RuleFiles)

InitConv ==
  /\ Constructed
  /\ call = VNone
  /\ ret = VNone
  /\ strict = FALSE
  /\ \/ input_kind = "file" /\ \E f \in RuleFiles : sigma_files = <<f>>
     \/ input_kind = "dir" /\ sigma_files \in FileLists
     \/ input_kind = "invalid" /\ sigma_files = <<>>
  /\ idx = 0
  /\ success_count = 0
  /\ valid_count = 0
  /\ converted_rules = <<>>
  /\ out_files = <<>>
  /\ log = <<>>
  /\ exit_code = <<>>
  /\ pc = "main"

\* what one call of convert_file changes outside the converter's tables
ConvertFileEffects(sigma_file) ==
  LET r == convert_file(sigma_file)
  IN  /\ out_files' = OutFilesAfter(r)
      /\ log' = Append(log, r)

\* a single file: convert it and exit
ConvMainFile ==
  /\ pc = "main"
  /\ input_kind = "file"
  /\ ConvertFileEffects(sigma_files[1])
  /\ idx' = 1
  /\ exit_code' = (IF convert_file(sigma_files[1]).ok THEN <<0>> ELSE <<1>>)
  /\ pc' = "exited"
  /\ UNCHANGED <<tableVars, callVars, validatorVars, input_kind, strict,
                 sigma_files, success_count, valid_count, converted_rules>>

\* a directory: exit with 1 when it holds no rule file, else enter the loop
ConvMainDir ==
  /\ pc = "main"
  /\ input_kind = "dir"
  /\ IF sigma_files = <<>>
       THEN exit_code' = <<1>> /\ pc' = "exited"
       ELSE exit_code' = exit_code /\ pc' = "loop"
  /\ UNCHANGED <<tableVars, callVars, validatorVars, input_kind, strict,
                 sigma_files, idx, success_count, valid_count,
                 converted_rules, out_files, log>>

\* neither a file nor a directory
ConvMainInvalid ==
  /\ pc = "main"
  /\ input_kind = "invalid"
  /\ exit_code' = <<1>>
  /\ pc' = "exited"
  /\ UNCHANGED <<tableVars, callVars, validatorVars, input_kind, strict,
                 sigma_files, idx, success_count, valid_count,
                 converted_rules, out_files, log>>

\* an iteration that also stores the converted stem in the field table
ConvLoopFile_Memo ==
  /\ pc = "loop"
  /\ idx < Len(sigma_files)
  /\ ConvertFileEffects(sigma_files[idx + 1])
  /\ success_count' = (IF convert_file(sigma_files[idx + 1]).ok
                         THEN success_count + 1 ELSE success_count)
  /\ idx' = idx + 1
  /\ field_mappings' = DictPut(field_mappings, sigma_files[idx + 1].stem,
                               StrLower(sigma_files[idx + 1].stem))
  /\ UNCHANGED <<logsource_mappings, callVars, validatorVars, input_kind,
                 strict, sigma_files, valid_count, converted_rules,
                 exit_code, pc>>

\* one iteration of the loop over sigma_files
ConvLoopFile ==
  /\ pc = "loop"
  /\ idx < Len(sigma_files)
  /\ ConvertFileEffects(sigma_files[idx + 1])
  /\ success_count' = (IF convert_file(sigma_files[idx + 1]).ok
                         THEN success_count + 1 ELSE success_count)
  /\ idx' = idx + 1
  /\ UNCHANGED <<tableVars, callVars, validatorVars, input_kind, strict,
                 sigma_files, valid_count, converted_rules, exit_code, pc>>

\* an exit after the loop that asks for one converted file only
ConvLoopExit_AnySuccess ==
  /\ pc = "loop"
  /\ idx = Len(sigma_files)
  /\ exit_code' = (IF success_count > 0 THEN <<0>> ELSE <<1>>)
  /\ pc' = "exited"
  /\ UNCHANGED <<tableVars, callVars, validatorVars, input_kind, strict,
                 sigma_files, idx, success_count, valid_count,
                 converted_rules, out_files, log>>

\* after the loop
ConvLoopExit ==
  /\ pc = "loop"
  /\ idx = Len(sigma_files)
  /\ exit_code' = (IF success_count = Len(sigma_files) THEN <<0>> ELSE <<1>>)
  /\ pc' = "exited"
  /\ UNCHANGED <<tableVars, callVars, validatorVars, input_kind, strict,
                 sigma_files, idx, success_count, valid_count,
                 converted_rules, out_files, log>>

NextConv ==
  \/ ConvMainFile
  \/ ConvMainDir
  \/ ConvMainInvalid
  \/ ConvLoopFile
  \/ ConvLoopExit

SpecConv == InitConv /\ [][NextConv]_vars

(***************************************************************************)
(* C5: a detection block without condition or without selection            *)
(***************************************************************************)
\* the parsed rule has a detection mapping that lacks `condition` or
\* declares no selection
DefectiveDetection(sigma_rule) ==
  /\ sigma_rule.t = "dict"
  /\ DictHas(sigma_rule.v, s_detection)
  /\ LET detection == DictGet(sigma_rule.v, s_detection)
     IN  /\ detection.t = "dict"
         /\ \/ ~DictHas(detection.v, s_condition)
            \/ SelectionKeys(detection.v) = {}

\* C5 as stated: for every converted file whose detection block has no
\* `condition` key or holds no selection, convert_file returned False and
\* no artifact of that rule is in the output directory.
C5_Original ==
  \A i \in 1..Len(log) :
    DefectiveDetection(SafeLoad(sigma_files[i])) =>
      /\ ~log[i].ok
      /\ ~DictHas(out_files, RuleIdOf(sigma_files[i].stem))

(***************************************************************************)
(* C9: the PowerShell example                                              *)
(***************************************************************************)
\* C9: converting the Suspicious PowerShell rule succeeds with a query that
\* starts with the PowerShell source filter and contains the clause
\* (commandline = "*-enc*" OR commandline = "*-EncodedCommand*"), with
\* threshold 0 and tags.ttp T1059.001.
C9_EndToEnd ==
  \A i \in 1..Len(log) :
    SafeLoad(sigma_files[i]) = PowerShellRule =>
      /\ log[i].ok
      /\ StartsWith(log[i].metadata.query,
                    <<"_","s","o","u","r","c","e","N","a","m","e","=","P","o","w","e","r","S","h","e","l","l">>)
      /\ StrContains(log[i].metadata.query,
                     <<"(","c","o","m","m","a","n","d","l","i","n","e"," ","="," ","\"","*","-","e","n","c","*","\""," ","O","R"," ","c","o","m","m","a","n","d","l","i","n","e"," ","="," ","\"","*","-","E","n","c","o","d","e","d","C","o","m","m","a","n","d","*","\"",")">>)
      /\ log[i].metadata.threshold = 0
      /\ log[i].metadata.tags.ttp = <<"T","1","0","5","9",".","0","0","1">>

\* the PowerShell rule has been converted, with the query the base filter
\* followed by the one clause
C9_Witness ==
  \E i \in 1..Len(log) :
    /\ SafeLoad(sigma_files[i]) = PowerShellRule
    /\ log[i].ok
    /\ log[i].metadata.query =
         <<"_","s","o","u","r","c","e","N","a","m","e","=","P","o","w","e","r","S","h","e","l","l"," ","|"," ","w","h","e","r","e"," ","(","c","o","m","m","a","n","d","l","i","n","e"," ","="," ","\"","*","-","e","n","c","*","\""," ","O","R"," ","c","o","m","m","a","n","d","l","i","n","e"," ","="," ","\"","*","-","E","n","c","o","d","e","d","C","o","m","m","a","n","d","*","\"",")">>

Truthy(value) ==
  CASE value.t = "none" -> FALSE
    [] value.t = "int"  -> value.v # 0
    [] OTHER            -> value.v # <<>>

Whitespace == {" ", "\t", "\n", "\r", "\f"}

RECURSIVE LStrip(_)
LStrip(s) ==
  IF s # <<>> /\ Head(s) \in Whitespace THEN LStrip(Tail(s)) ELSE s

RECURSIVE RStrip(_)
RStrip(s) ==
  IF s # <<>> /\ s[Len(s)] \in Whitespace
    THEN RStrip(SubSeq(s, 1, Len(s) - 1)) ELSE s

\* s.strip()
Strip(s) == RStrip(LStrip(s))

\* f'{field}="{value}"'
FieldEquals(field, value) == field \o <<"=", "\"">> \o PyStr(value) \o <<"\"">>

\* the parts the loop over selection.items() appends: one per str value,
\* one parenthesised OR group per list value, none for any other value
SelectionParts(selection) ==
  LET kept == SelectSeq(selection, LAMBDA kv : kv[2].t \in {"str", "list"})
  IN  [i \in 1..Len(kept) |->
         IF kept[i][2].t = "str" THEN FieldEquals(kept[i][1], kept[i][2])
         ELSE <<"(">>
                \o Join(<<" ","O","R"," ">>,
                        [j \in 1..Len(kept[i][2].v) |->
                           FieldEquals(kept[i][1], kept[i][2].v[j])])
                \o <<")">>]

\* the parts the loop over filter_def.items() appends: one negation per
\* str value
FilterParts(filter_def) ==
  LET kept == SelectSeq(filter_def, LAMBDA kv : kv[2].t = "str")
  IN  [i \in 1..Len(kept) |-> <<"!">> \o FieldEquals(kept[i][1], kept[i][2])]

\* create_basic_sumologic_query(rule_data) for a rule_data that is a
\* mapping: .get and .items on a value that is no mapping raise
\* AttributeError
create_basic_sumologic_query(rule_data) ==
  LET logsource == GetOr(rule_data.v, s_logsource, VDict(<<>>))
      detection == GetOr(rule_data.v, s_detection, VDict(<<>>))
  IN  IF logsource.t # "dict" \/ detection.t # "dict" THEN Raise
      ELSE
        LET product == GetOr(logsource.v, s_product, VStr(s_unknown))
            selection == GetOr(detection.v, s_selection, VDict(<<>>))
            filter_def == GetOr(detection.v, s_filter, VDict(<<>>))
        IN  IF selection.t # "dict" \/ filter_def.t # "dict" THEN Raise
            ELSE
              LET parts ==
                    << <<"_","s","o","u","r","c","e","C","a","t","e","g","o","r","y","=","\"">> \o PyStr(product) \o <<"\"">> >>
                      \o SelectionParts(selection.v)
                      \o FilterParts(filter_def.v)
              IN  Return(IF Len(parts) > 1
                           THEN <<"\n","|"," ","w","h","e","r","e"," ">> \o Join(<<" ","A","N","D"," ">>, parts)
                           ELSE parts[1])

\* convert_splunk_to_sumologic once rule_data is loaded: .get on a document
\* or on a logsource that is no mapping raises AttributeError
SumologicQuery(splunk_query, rule_data) ==
  IF rule_data.t # "dict" THEN Raise
  ELSE
        LET logsource == GetOr(rule_data.v, s_logsource, VDict(<<>>))
        IN  IF logsource.t # "dict" THEN Raise
            ELSE
              LET product == GetOr(logsource.v, s_product, VStr(<<>>))
                  service == GetOr(logsource.v, s_service, VStr(<<>>))
                  source_category ==
                    IF Truthy(product) /\ Truthy(service)
                      THEN <<"_","s","o","u","r","c","e","C","a","t","e","g","o","r","y","=","\"">> \o PyStr(product)
                             \o <<"/">> \o PyStr(service) \o <<"\"">>
                    ELSE IF Truthy(product)
                      THEN <<"_","s","o","u","r","c","e","C","a","t","e","g","o","r","y","=","\"">> \o PyStr(product) \o <<"\"">>
                    ELSE <<>>
              IN  IF source_category # <<>> /\ splunk_query # <<>>
                    THEN Return(source_category \o <<" ">> \o splunk_query)
                  ELSE IF splunk_query # <<>> THEN Return(splunk_query)
                  ELSE create_basic_sumologic_query(rule_data)

\* convert_splunk_to_sumologic(splunk_query, rule_path): the document is
\* read again, and a YAML error propagates
convert_splunk_to_sumologic(splunk_query, rule_path) ==
  LET rule_data == SafeLoad(rule_path)
  IN  IF rule_data = YamlError THEN Raise
      ELSE SumologicQuery(splunk_query, rule_data)

\* what subprocess.run of `sigma convert` can give for a rule: a non-zero
\* return code (CalledProcessError under check=True) or the standard output
\* of a successful conversion
SigmaRuns ==
  { [returncode |-> 1, stdout |-> <<>>],
    [returncode |-> 0, stdout |-> <<>>],
    [returncode |-> 0, stdout |-> <<"E","v","e","n","t","I","D","=","4","6","2","5","\n">>] }

\* convert_sigma_rule(rule_path) when subprocess.run gives run: the
\* CalledProcessError is raised again as Exception, any other exception
\* propagates
convert_sigma_rule(rule_path, run) ==
  IF run.returncode # 0 THEN Raise
  ELSE convert_splunk_to_sumologic(Strip(run.stdout), rule_path)

\* rule_file.name
FileName(rule_file) ==
  rule_file.stem \o <<".">>
    \o (IF rule_file.ext = "yml" THEN <<"y","m","l">> ELSE <<"y","a","m","l">>)

s_converted_rules_json == <<"c","o","n","v","e","r","t","e","d","_","r","u","l","e","s",".","j","s","o","n">>

\* the rule files of SIGMA_RULES_DIR
SigmaRuleFiles == FilesUnder(SIGMA_RULES_DIR)

InitCli ==
  /\ Constructed
  /\ call = VNone
  /\ ret = VNone
  /\ strict = FALSE
  /\ input_kind = "dir"
  /\ sigma_files \in GlobLists(SigmaRuleFiles)
  /\ idx = 0
  /\ success_count = 0
  /\ valid_count = 0
  /\ converted_rules = <<>>
  /\ out_files = <<>>
  /\ log = <<>>
  /\ exit_code = <<>>
  /\ pc = "main"

\* main up to the loop: the backend is installed (either outcome only
\* prints), the rules are listed, and no rule ends the run with status 1
CliMain ==
  /\ pc = "main"
  /\ IF sigma_files = <<>>
       THEN exit_code' = <<1>> /\ pc' = "exited"
       ELSE exit_code' = exit_code /\ pc' = "loop"
  /\ UNCHANGED <<tableVars, callVars, validatorVars, input_kind, strict,
                 sigma_files, idx, success_count, valid_count,
                 converted_rules, out_files, log>>

\* one iteration of the loop over sigma_files: the query is recorded under
\* the stem of the file, or the exception ends the run with status 1
CliLoopFile ==
  /\ pc = "loop"
  /\ idx < Len(sigma_files)
  /\ \E run \in SigmaRuns :
       LET rule_file == sigma_files[idx + 1]
           query == convert_sigma_rule(rule_file, run)
       IN  IF query.exc
             THEN /\ log' = Append(log, [ok |-> FALSE])
                  /\ converted_rules' = converted_rules
                  /\ exit_code' = <<1>>
                  /\ pc' = "exited"
             ELSE /\ log' = Append(log, [ok |-> TRUE, query |-> query.v])
                  /\ converted_rules' =
                       DictPut(converted_rules, rule_file.stem,
                               [file |-> FileName(rule_file), query |-> query.v])
                  /\ exit_code' = exit_code
                  /\ pc' = pc
  /\ idx' = idx + 1
  /\ UNCHANGED <<tableVars, callVars, validatorVars, input_kind, strict,
                 sigma_files, success_count, valid_count, out_files>>

\* after the loop: converted_rules.json is written and main returns
CliSave ==
  /\ pc = "loop"
  /\ idx = Len(sigma_files)
  /\ out_files' = DictPut(out_files, s_converted_rules_json, converted_rules)
  /\ exit_code' = <<0>>
  /\ pc' = "exited"
  /\ UNCHANGED <<tableVars, callVars, validatorVars, input_kind, strict,
                 sigma_files, idx, success_count, valid_count,
                 converted_rules, log>>

NextCli ==
  \/ CliMain
  \/ CliLoopFile
  \/ CliSave

SpecCli == InitCli /\ [][NextCli]_vars

(***************************************************************************)
(* C4: a batch with one failing rule                                       *)
(***************************************************************************)
\* the attempts of the run that failed
Failures == { i \in 1..Len(log) : ~log[i].ok }

\* C4 as stated: when a batch conversion has ended and exactly one rule
\* failed to convert, every rule of the batch was attempted, the failure is
\* the only one recorded, the report was written, and each of the other
\* rules has its query in the report.
C4_Original ==
  (pc = "exited" /\ Cardinality(Failures) = 1) =>
    /\ Len(log) = Len(sigma_files)
    /\ DictHas(out_files, s_converted_rules_json)
    /\ \A i \in 1..Len(log) :
         log[i].ok =>
           DictHas(DictGet(out_files, s_converted_rules_json),
                   sigma_files[i].stem)

(***************************************************************************)
(* validate_sigma.py: the checks of a rule                                 *)
(***************************************************************************)
REQUIRED_FIELDS ==
  <<<<"t","i","t","l","e">>,
    <<"i","d">>,
    <<"d","e","s","c","r","i","p","t","i","o","n">>,
    <<"l","o","g","s","o","u","r","c","e">>,
    <<"d","e","t","e","c","t","i","o","n">>,
    <<"l","e","v","e","l">>>>

VALID_LEVELS ==
  <<<<"c","r","i","t","i","c","a","l">>,
    <<"h","i","g","h">>,
    <<"m","e","d","i","u","m">>,
    <<"l","o","w">>,
    <<"i","n","f","o","r","m","a","t","i","o","n","a","l">>>>

VALID_STATUSES ==
  <<<<"s","t","a","b","l","e">>,
    <<"t","e","s","t">>,
    <<"e","x","p","e","r","i","m","e","n","t","a","l">>,
    <<"d","e","p","r","e","c","a","t","e","d">>,
    <<"u","n","s","u","p","p","o","r","t","e","d">>>>

known_products ==
  <<<<"w","i","n","d","o","w","s">>,
    <<"l","i","n","u","x">>,
    <<"m","a","c","o","s">>,
    <<"a","w","s">>,
    <<"a","z","u","r","e">>,
    <<"g","c","p">>,
    <<"k","u","b","e","r","n","e","t","e","s">>>>

RecommendedFields ==
  <<<<"a","u","t","h","o","r">>,
    <<"r","e","f","e","r","e","n","c","e","s">>,
    <<"f","a","l","s","e","p","o","s","i","t","i","v","e","s">>,
    <<"d","a","t","e">>>>

s_id == <<"i","d">>

s_status == <<"s","t","a","t","u","s">>

s_attack == <<"a","t","t","a","c","k",".">>

\* what a check does: whether it raised, the value it returned, and what
\* it appended to self.errors and self.warnings
Outcome(exc, v, errs, warns) ==
  [exc |-> exc, v |-> v, errors |-> errs, warnings |-> warns]

Passed == Outcome(FALSE, TRUE, <<>>, <<>>)

Raised == Outcome(TRUE, FALSE, <<>>, <<>>)

\* f"Missing required field: {field}"
e_missing(field) == <<"M","i","s","s","i","n","g"," ","r","e","q","u","i","r","e","d"," ","f","i","e","l","d",":"," ">> \o field

\* f"Invalid UUID format: {rule_id}"
e_uuid(rule_id) == <<"I","n","v","a","l","i","d"," ","U","U","I","D"," ","f","o","r","m","a","t",":"," ">> \o rule_id

\* f"Invalid level '{level}'. Must be one of: {', '.join(self.VALID_LEVELS)}"
e_level(level) ==
  <<"I","n","v","a","l","i","d"," ","l","e","v","e","l"," ","'">> \o PyStr(level)
    \o <<"'","."," ","M","u","s","t"," ","b","e"," ","o","n","e"," ","o","f",":"," ">> \o Join(<<",", " ">>, VALID_LEVELS)

\* f"Non-standard status '{status}'. Recommended: {', '.join(self.VALID_STATUSES)}"
w_status(status) ==
  <<"N","o","n","-","s","t","a","n","d","a","r","d"," ","s","t","a","t","u","s"," ","'">> \o PyStr(status)
    \o <<"'","."," ","R","e","c","o","m","m","e","n","d","e","d",":"," ">> \o Join(<<",", " ">>, VALID_STATUSES)

e_logsource_not_dict == <<"l","o","g","s","o","u","r","c","e"," ","m","u","s","t"," ","b","e"," ","a"," ","d","i","c","t","i","o","n","a","r","y">>

e_logsource_empty ==
  <<"l","o","g","s","o","u","r","c","e"," ","m","u","s","t"," ","c","o","n","t","a","i","n"," ","a","t"," ","l","e","a","s","t"," ","o","n","e"," ","o","f",":"," ","p","r","o","d","u","c","t",","," ","c","a","t","e","g","o","r","y",","," ","s","e","r","v","i","c","e">>

\* f"Uncommon product '{logsource['product']}'. Consider using: {', '.join(known_products)}"
w_product(product) ==
  <<"U","n","c","o","m","m","o","n"," ","p","r","o","d","u","c","t"," ","'">> \o PyStr(product)
    \o <<"'","."," ","C","o","n","s","i","d","e","r"," ","u","s","i","n","g",":"," ">> \o Join(<<",", " ">>, known_products)

e_tags_not_list == <<"t","a","g","s"," ","m","u","s","t"," ","b","e"," ","a"," ","l","i","s","t">>

w_no_mitre ==
  <<"N","o"," ","M","I","T","R","E"," ","A","T","T","&","C","K"," ","t","a","g","s"," ","f","o","u","n","d","."," ","C","o","n","s","i","d","e","r"," ","a","d","d","i","n","g"," ","a","t","t","a","c","k",".","*"," ","t","a","g","s">>

\* f"Malformed MITRE technique tag: {tag}"
w_malformed(tag) == <<"M","a","l","f","o","r","m","e","d"," ","M","I","T","R","E"," ","t","e","c","h","n","i","q","u","e"," ","t","a","g",":"," ">> \o tag

\* f"Consider adding '{field}' field"
w_consider(field) == <<"C","o","n","s","i","d","e","r"," ","a","d","d","i","n","g"," ","'">> \o field \o <<"'"," ","f","i","e","l","d">>

\* f"YAML syntax error: {e}", without the text of the parser's message
e_yaml_syntax == <<"Y","A","M","L"," ","s","y","n","t","a","x"," ","e","r","r","o","r",":"," ">>

\* validate_required_fields(rule): `field not in rule` raises TypeError on
\* None and on an int, is a substring test on a str and an element test on
\* a list
validate_required_fields(rule) ==
  IF KeyInRaises(rule) THEN Raised
  ELSE LET missing == SelectSeq(REQUIRED_FIELDS, LAMBDA field : ~KeyIn(field, rule))
       IN  Outcome(FALSE, missing = <<>>,
                   [i \in 1..Len(missing) |-> e_missing(missing[i])], <<>>)

RECURSIVE LStripChars(_, _)
LStripChars(s, chars) ==
  IF s # <<>> /\ Head(s) \in chars THEN LStripChars(Tail(s), chars) ELSE s

RECURSIVE RStripChars(_, _)
RStripChars(s, chars) ==
  IF s # <<>> /\ s[Len(s)] \in chars
    THEN RStripChars(SubSeq(s, 1, Len(s) - 1), chars) ELSE s

\* s.strip(chars)
StripChars(s, chars) == RStripChars(LStripChars(s, chars), chars)

HexChars ==
  Range(DigitChars) \cup {"a","b","c","d","e","f","A","B","C","D","E","F"}

\* int(s, 16) does not raise ValueError: white space around, a sign, a 0x
\* prefix, then hexadecimal digits with single underscores between them
ValidHexInt(s) ==
  LET t == Strip(s)
      u == IF t # <<>> /\ Head(t) \in {"+", "-"} THEN Tail(t) ELSE t
      prefixed == Len(u) >= 2 /\ u[1] = "0" /\ u[2] \in {"x", "X"}
      d0 == IF prefixed THEN SubSeq(u, 3, Len(u)) ELSE u
      d == IF prefixed /\ d0 # <<>> /\ Head(d0) = "_" THEN Tail(d0) ELSE d0
  IN  /\ d # <<>>
      /\ \A i \in 1..Len(d) : d[i] \in HexChars \cup {"_"}
      /\ d[1] # "_"
      /\ d[Len(d)] # "_"
      /\ \A i \in 1..(Len(d) - 1) : ~(d[i] = "_" /\ d[i + 1] = "_")

\* uuid.UUID(rule_id) of a str does not raise ValueError
IsUuid(rule_id) ==
  LET hex == RemoveAll(StripChars(RemoveAll(RemoveAll(rule_id, <<"u","r","n",":">>),
                                            <<"u","u","i","d",":">>),
                                  {"{", "}"}),
                       <<"-">>)
  IN  Len(hex) = 32 /\ ValidHexInt(hex)

\* validate_uuid(rule_id): only ValueError is caught, the AttributeError
\* of a rule_id that is no str propagates
validate_uuid(rule_id) ==
  IF rule_id.t # "str" THEN Raised
  ELSE IF IsUuid(rule_id.v) THEN Passed
  ELSE Outcome(FALSE, FALSE, <<e_uuid(rule_id.v)>>, <<>>)

\* value in a list of strings
InStrings(value, strings) == value.t = "str" /\ value.v \in Range(strings)

validate_level(level) ==
  IF InStrings(level, VALID_LEVELS) THEN Passed
  ELSE Outcome(FALSE, FALSE, <<e_level(level)>>, <<>>)

validate_status(status) ==
  IF InStrings(status, VALID_STATUSES) THEN Passed
  ELSE Outcome(FALSE, FALSE, <<>>, <<w_status(status)>>)

validate_logsource(logsource) ==
  IF logsource.t # "dict"
    THEN Outcome(FALSE, FALSE, <<e_logsource_not_dict>>, <<>>)
    ELSE
      LET errs ==
            IF \E key \in {s_product, s_category, s_service} :
                 DictHas(logsource.v, key)
              THEN <<>> ELSE <<e_logsource_empty>>
          warns ==
            IF /\ DictHas(logsource.v, s_product)
               /\ ~InStrings(DictGet(logsource.v, s_product), known_products)
              THEN <<w_product(DictGet(logsource.v, s_product))>> ELSE <<>>
      IN  Outcome(FALSE, errs = <<>>, errs, warns)

AllDigits(s) == \A i \in 1..Len(s) : s[i] \in Range(DigitChars)

\* attack.t, four digits, then nothing or a dot and three digits
TechniqueText(tag) ==
  /\ StartsWith(tag, s_attack_t)
  /\ LET rest == SubSeq(tag, Len(s_attack_t) + 1, Len(tag))
     IN  \/ Len(rest) = 4 /\ AllDigits(rest)
         \/ /\ Len(rest) = 8
            /\ AllDigits(SubSeq(rest, 1, 4))
            /\ rest[5] = "."
            /\ AllDigits(SubSeq(rest, 6, 8))

\* technique_pattern.match(tag) for r'^attack\.t\d{4}(\.\d{3})?$': the $
\* also matches before a newline that ends the tag
technique_pattern(tag) ==
  \/ TechniqueText(tag)
  \/ /\ tag # <<>>
     /\ tag[Len(tag)] = "\n"
     /\ TechniqueText(SubSeq(tag, 1, Len(tag) - 1))

\* validate_tags(tags): tag.startswith raises AttributeError on a tag that
\* is no str, before any warning is appended
validate_tags(tags) ==
  IF tags.t # "list" THEN Outcome(FALSE, FALSE, <<e_tags_not_list>>, <<>>)
  ELSE IF \E i \in 1..Len(tags.v) : tags.v[i].t # "str" THEN Raised
  ELSE
    LET mitre_tags == SelectSeq(tags.v, LAMBDA tag : StartsWith(tag.v, s_attack))
        checked ==
          SelectSeq(mitre_tags,
                    LAMBDA tag :
                      ~(/\ ~StartsWith(tag.v, s_attack_t)
                        /\ "." \notin Range(SubSeq(tag.v, 8, Len(tag.v)))))
        malformed ==
          SelectSeq(checked,
                    LAMBDA tag : /\ StartsWith(tag.v, s_attack_t)
                                 /\ ~technique_pattern(tag.v))
    IN  Outcome(FALSE, TRUE, <<>>,
                (IF mitre_tags = <<>> THEN <<w_no_mitre>> ELSE <<>>)
                  \o [i \in 1..Len(malformed) |-> w_malformed(malformed[i].v)])

\* `if key in rule: check(rule[key])`, checked what check does on
\* rule[key]: the subscript raises TypeError on a str and on a list
CheckField(rule, key, checked) ==
  IF ~KeyIn(key, rule) THEN Passed
  ELSE IF rule.t # "dict" THEN Raised
  ELSE checked

\* a check whose returned value validate_rule does not use
Unused(step) == [step EXCEPT !.v = TRUE]

\* the warnings for the recommended fields that are not in rule
RecommendedWarnings(rule) ==
  LET missing == SelectSeq(RecommendedFields, LAMBDA field : ~KeyIn(field, rule))
  IN  Outcome(FALSE, TRUE, <<>>, [i \in 1..Len(missing) |-> w_consider(missing[i])])

\* the checks of steps run in order: nothing runs after a check that
\* raises, and what was appended before it stays
InOrder(steps) ==
  LET raising == { i \in 1..Len(steps) : steps[i].exc }
      last == IF raising = {} THEN Len(steps)
              ELSE CHOOSE i \in raising : \A j \in raising : i <= j
  IN  Outcome(raising # {},
              raising = {} /\ \A i \in 1..Len(steps) : steps[i].v,
              Concat([i \in 1..last |-> steps[i].errors]),
              Concat([i \in 1..last |-> steps[i].warnings]))

\* rule[key] of a mapping
Field(rule, key) == DictGet(rule.v, key)

\* validate_rule(rule): the checks in the order of the code, each
\* evaluated once
validate_rule(rule) ==
  CHOOSE done \in
    { InOrder(steps) :
        steps \in
          { << validate_required_fields(rule),
               CheckField(rule, s_id, validate_uuid(Field(rule, s_id))),
               CheckField(rule, s_level, validate_level(Field(rule, s_level))),
               Unused(CheckField(rule, s_status,
                                 validate_status(Field(rule, s_status)))),
               CheckField(rule, s_logsource,
                          validate_logsource(Field(rule, s_logsource))),
               CheckField(rule, s_detection,
                          validate_detection(Field(rule, s_detection))),
               Unused(CheckField(rule, s_tags, validate_tags(Field(rule, s_tags)))),
               RecommendedWarnings(rule) >> } } : TRUE

\* the value validate_file returns after validate_rule did checked:
\* rule_valid and not self.errors
Verdict(checked) ==
  [checked EXCEPT !.v = ~checked.exc /\ checked.v /\ checked.errors = <<>>]

\* validate_file once the file is read: a YAML error is recorded and False
\* returned; an exception of validate_rule propagates
ValidateLoaded(rule) ==
  IF rule = YamlError THEN Outcome(FALSE, FALSE, <<e_yaml_syntax>>, <<>>)
  ELSE CHOOSE verdict \in
         { Verdict(checked) : checked \in {validate_rule(rule)} } : TRUE

\* validate_file(file_path), with self.errors and self.warnings empty at
\* the start and the file read once
validate_file(file_path) ==
  CHOOSE verdict \in
    { ValidateLoaded(rule) : rule \in {SafeLoad(file_path)} } : TRUE

(***************************************************************************)
(* Validator run: validate_sigma.main                                      *)
(***************************************************************************)
\* the rule files under the input directory of the validator
IncomingFiles == FilesUnder("incoming")

InitVal ==
  /\ field_mappings = FieldMappingsInit
  /\ logsource_mappings = LogsourceMappingsInit
  /\ errors = <<>>
  /\ warnings = <<>>
  /\ call = VNone
  /\ ret = VNone
  /\ strict \in BOOLEAN
  /\ \/ input_kind = "file" /\ \E f \in IncomingFiles : sigma_files = <<f>>
     \/ input_kind = "dir" /\ sigma_files \in GlobLists(IncomingFiles)
     \/ input_kind = "invalid" /\ sigma_files = <<>>
  /\ idx = 0
  /\ success_count = 0
  /\ valid_count = 0
  /\ converted_rules = <<>>
  /\ out_files = <<>>
  /\ log = <<>>
  /\ exit_code = <<>>
  /\ pc = "main"

\* what one call of validate_file leaves in the validator and prints; an
\* exception that leaves validate_file leaves main too, and the process
\* ends with the traceback and status 1
ValidateFileEffects(checked) ==
  /\ errors' = checked.errors
  /\ warnings' = checked.warnings
  /\ log' = (IF checked.exc THEN log
             ELSE Append(log, [valid |-> checked.v,
                               errors |-> checked.errors,
                               warnings |-> checked.warnings]))

\* a single file: validate it, count warnings as failure under --strict,
\* and exit
ValMainFile ==
  /\ pc = "main"
  /\ input_kind = "file"
  /\ \E checked \in {validate_file(sigma_files[1])} :
       LET valid == checked.v /\ ~(strict /\ checked.warnings # <<>>)
       IN  /\ ValidateFileEffects(checked)
           /\ IF checked.exc
                THEN exit_code' = <<1>> /\ pc' = "crashed"
                ELSE exit_code' = (IF valid THEN <<0>> ELSE <<1>>) /\ pc' = "exited"
  /\ idx' = 1
  /\ UNCHANGED <<tableVars, callVars, input_kind, strict, sigma_files,
                 success_count, valid_count, converted_rules, out_files>>

\* a directory: exit with 1 when it holds no rule file, else enter the loop
ValMainDir ==
  /\ pc = "main"
  /\ input_kind = "dir"
  /\ IF sigma_files = <<>>
       THEN exit_code' = <<1>> /\ pc' = "exited"
       ELSE exit_code' = exit_code /\ pc' = "loop"
  /\ UNCHANGED <<tableVars, callVars, validatorVars, input_kind, strict,
                 sigma_files, idx, success_count, valid_count,
                 converted_rules, out_files, log>>

\* neither a file nor a directory
ValMainInvalid ==
  /\ pc = "main"
  /\ input_kind = "invalid"
  /\ exit_code' = <<1>>
  /\ pc' = "exited"
  /\ UNCHANGED <<tableVars, callVars, validatorVars, input_kind, strict,
                 sigma_files, idx, success_count, valid_count,
                 converted_rules, out_files, log>>

\* one iteration of the loop over sigma_files
ValLoopFile ==
  /\ pc = "loop"
  /\ idx < Len(sigma_files)
  /\ \E checked \in {validate_file(sigma_files[idx + 1])} :
       /\ ValidateFileEffects(checked)
       /\ valid_count' = (IF checked.v THEN valid_count + 1 ELSE valid_count)
       /\ IF checked.exc
            THEN exit_code' = <<1>> /\ pc' = "crashed"
            ELSE exit_code' = exit_code /\ pc' = pc
  /\ idx' = idx + 1
  /\ UNCHANGED <<tableVars, callVars, input_kind, strict, sigma_files,
                 success_count, converted_rules, out_files>>

\* after the loop: under --strict the files that are not valid are counted
\* as the files with warnings; the status is 0 when every file is valid
ValLoopExit ==
  /\ pc = "loop"
  /\ idx = Len(sigma_files)
  /\ LET files_with_warnings == Len(sigma_files) - valid_count
     IN  exit_code' = (IF strict /\ files_with_warnings > 0 THEN <<1>>
                       ELSE IF valid_count = Len(sigma_files) THEN <<0>>
                       ELSE <<1>>)
  /\ pc' = "exited"
  /\ UNCHANGED <<tableVars, callVars, validatorVars, input_kind, strict,
                 sigma_files, idx, success_count, valid_count,
                 converted_rules, out_files, log>>

NextVal ==
  \/ ValMainFile
  \/ ValMainDir
  \/ ValMainInvalid
  \/ ValLoopFile
  \/ ValLoopExit

SpecVal == InitVal /\ [][NextVal]_vars

(***************************************************************************)
(* C6: the per-file boundary of a validation run                           *)
(***************************************************************************)
\* C6 as stated: in a directory validation run no failure on a document
\* leaves validate_file as an exception; every file validate_file was
\* given has a recorded verdict, with an error recorded when the verdict is
\* False, and a run that has ended has validated every file of the batch.
C6_Original ==
  input_kind = "dir" =>
    /\ pc # "crashed"
    /\ Len(log) = idx
    /\ \A i \in 1..Len(log) : ~log[i].valid => log[i].errors # <<>>
    /\ (exit_code # <<>> /\ sigma_files # <<>>) => Len(log) = Len(sigma_files)

(***************************************************************************)
(* Tag-level specification: one call of convert_sigma_to_sumologic on a    *)
(* rule with a list of tags                                                *)
(***************************************************************************)
MaxTags == 2

\* the tags the rules are drawn from
TagPool ==
  { <<"a","t","t","a","c","k",".","t","1","0","5","9",".","0","0","1">>,
    <<"a","t","t","a","c","k",".","t","1","1","1","0">>,
    <<"a","t","t","a","c","k",".","e","x","e","c","u","t","i","o","n">>,
    <<"a","t","t","a","c","k",".","t","a","c","t","i","c">>,
    <<"a","t","t","a","c","k",".","t","1","0">>,
    <<"a","t","t","a","c","k",".","t","a","0","0","0","2">>,
    <<"a","t","t","a","c","k",".","T","1","0","5","9">>,
    <<"c","a","r",".","2","0","1","3">>,
    <<"a","t","t","a","c","k",".","t","1","0","5","9",".","0","1">>,
    <<"a","t","t","a","c","k",".">> }

\* the lists of at most MaxTags tags
TagLists == UNION { [1..k -> TagPool] : k \in 0..MaxTags }

\* a rule with a title and the tags ts
TaggedRule(ts) ==
  VDict(<< <<s_title, VStr(<<"T">>)>>,
           <<s_tags, VList([i \in 1..Len(ts) |-> VStr(ts[i])])>> >>)

InitTag ==
  /\ Constructed
  /\ NoRun
  /\ \E ts \in TagLists :
       call = [fn |-> "convert_sigma_to_sumologic", x |-> TaggedRule(ts)]
  /\ ret = VNone
  /\ pc = "call"

CallConvertSigmaToSumologic ==
  /\ pc = "call"
  /\ call.fn = "convert_sigma_to_sumologic"
  /\ ret' = convert_sigma_to_sumologic(call.x)
  /\ pc' = "done"
  /\ UNCHANGED <<tableVars, call, validatorVars, runVars>>

NextTag == CallConvertSigmaToSumologic

SpecTag == InitTag /\ [][NextTag]_vars

(***************************************************************************)
(* C11: which tag becomes the ttp                                          *)
(***************************************************************************)
\* the tags of the rule under call, as strings
CalledTags ==
  LET tags == DictGet(call.x.v, s_tags).v
  IN  [i \in 1..Len(tags) |-> tags[i].v]

\* tag without its 'attack.' prefix, uppercased
TtpOf(tag) == StrUpper(SubSeq(tag, Len(s_attack_dot) + 1, Len(tag)))

\* C11 as stated: after convert_sigma_to_sumologic, tags.ttp is the
\* uppercased, prefix-stripped form of a tag that reads attack.t, four
\* digits, and optionally a dot and three digits; a tag of any other form
\* never sets it, and it is the empty string when no tag has that form.
C11_Original ==
  (pc = "done" /\ call.fn = "convert_sigma_to_sumologic" /\ ~ret.exc) =>
    LET ttp == ret.v.tags.ttp
        matching == { i \in 1..Len(CalledTags) : TechniqueText(CalledTags[i]) }
    IN  /\ matching = {} => ttp = <<>>
        /\ ttp # <<>> => \E i \in matching : ttp = TtpOf(CalledTags[i])

(***************************************************************************)
(* Stem-level specification: the rule_id convert_file derives from a file  *)
(* stem and the block generate_terraform renders under it                  *)
(***************************************************************************)
MaxStemLen == 3

StemAlphabet == {"a", "B", "1", "-", " ", ".", "_"}

\* the file stems of at most MaxStemLen characters
Stems == UNION { [1..k -> StemAlphabet] : k \in 0..MaxStemLen }

InitStem ==
  /\ Constructed
  /\ NoRun
  /\ \E stem \in Stems : call = [fn |-> "rule_id", x |-> VStr(stem)]
  /\ ret = VNone
  /\ pc = "call"

\* convert_file from the rule_id to the rendered block, for the monitor
\* configuration of the PowerShell rule
CallRuleId ==
  /\ pc = "call"
  /\ call.fn = "rule_id"
  /\ \E monitor_config \in {convert_sigma_to_sumologic(PowerShellRule).v} :
       LET rule_id == RuleIdOf(call.x.v)
       IN  ret' = Return([rule_id |-> rule_id,
                          terraform_config |->
                            generate_terraform(monitor_config, rule_id)])
  /\ pc' = "done"
  /\ UNCHANGED <<tableVars, call, validatorVars, runVars>>

NextStem == CallRuleId

SpecStem == InitStem /\ [][NextStem]_vars

(***************************************************************************)
(* C12: the characters of the resource identifier                          *)
(***************************************************************************)
Alphanumeric == Range(UpperChars) \cup Range(LowerChars) \cup Range(DigitChars)

\* s with every character that is not alphanumeric replaced by '_'
Sanitized(s) == [i \in 1..Len(s) |-> IF s[i] \in Alphanumeric THEN s[i] ELSE "_"]

\* C12 as stated: the identifier in the resource line of the rendered block
\* is the stem with every non-alphanumeric character replaced by an
\* underscore, so it holds alphanumeric characters and underscores only.
C12_Original ==
  (pc = "done" /\ call.fn = "rule_id") =>
    LET emitted == ret.v.terraform_config[2]
    IN  /\ emitted = Sanitized(call.x.v)
        /\ \A i \in 1..Len(emitted) : emitted[i] \in Alphanumeric \cup {"_"}

(***************************************************************************)
(* C13: --strict and the files with warnings                               *)
(***************************************************************************)
\* C13 as stated: a validator run under --strict that has ended, over a file
\* or over a directory, and in which some validated file produced at least
\* one warning, has a non-zero exit status.
C13_Original ==
  (/\ strict
   /\ pc = "exited"
   /\ input_kind \in {"file", "dir"}
   /\ \E i \in 1..Len(log) : log[i].warnings # <<>>)
    => exit_code # <<0>>

(***************************************************************************)
(* C14: the exit status of a directory conversion run                      *)
(***************************************************************************)
\* C14: a directory run of the converter does not exit while a discovered
\* file is still to be attempted; once it has exited, every discovered file
\* was given to convert_file, in order, and the status is 0 exactly when at
\* least one file was discovered and convert_file succeeded for each, and 1
\* otherwise (no file found, or some file failed).
C14_DirExitStatus ==
  input_kind = "dir" =>
    /\ pc # "exited" => exit_code = <<>>
    /\ pc = "exited" =>
         /\ Len(log) = Len(sigma_files)
         /\ \A i \in 1..Len(sigma_files) : log[i] = convert_file(sigma_files[i])
         /\ exit_code \in {<<0>>, <<1>>}
         /\ exit_code = <<0>> <=>
              /\ sigma_files # <<>>
              /\ \A i \in 1..Len(sigma_files) : convert_file(sigma_files[i]).ok

\* a directory run that has exited with 1 after its first file failed and a
\* later file converted
C14_Witness ==
  /\ input_kind = "dir"
  /\ pc = "exited"
  /\ Len(sigma_files) > 1
  /\ ~log[1].ok
  /\ log[Len(sigma_files)].ok
  /\ exit_code = <<1>>

(***************************************************************************)
(* Selection-level specification: one call of build_selection_query on a   *)
(* selection mapping                                                       *)
(***************************************************************************)
MaxFields == 2

SelFields == { <<"E","v","e","n","t","I","D">>, <<"I","m","a","g","e">>,
               <<"C","u","s","t","o","m">> }

\* values of every kind the builder tells apart: scalars, sequences (empty,
\* mixed, nested) and mappings with one modifier, with several, with none
SelValues ==
  { VStr(<<"c","m","d","*">>),
    VInt(4625),
    VNone,
    VList(<<>>),
    VList(<<VStr(<<"a">>), VInt(1)>>),
    VList(<<VList(<<VStr(<<"a">>), VStr(<<"b">>)>>), VStr(<<"c">>)>>),
    VDict(<< <<s_contains, VStr(<<"p","s">>)>> >>),
    VDict(<< <<s_startswith, VStr(<<"p","s">>)>> >>),
    VDict(<< <<s_endswith, VStr(<<".","e","x","e">>)>> >>),
    VDict(<< <<s_endswith, VInt(5)>> >>),
    VDict(<< <<s_startswith, VStr(<<"a">>)>>, <<s_contains, VStr(<<"b">>)>> >>),
    VDict(<< <<s_endswith, VStr(<<"a">>)>>, <<s_startswith, VStr(<<"b">>)>> >>),
    VDict(<< <<<<"r","e">>, VStr(<<"a">>)>> >>),
    VDict(<<>>) }

\* the selections of at most MaxFields distinct fields, in every order
Selections ==
  { sel \in UNION { [1..k -> SelFields \X SelValues] : k \in 0..MaxFields } :
      \A i, j \in 1..Len(sel) : i # j => sel[i][1] # sel[j][1] }

InitSel ==
  /\ Constructed
  /\ NoRun
  /\ \E sel \in Selections :
       call = [fn |-> "build_selection_query", x |-> VDict(sel)]
  /\ ret = VNone
  /\ pc = "call"

CallBuildSelectionQuery ==
  /\ pc = "call"
  /\ call.fn = "build_selection_query"
  /\ ret' = Return(build_selection_query(call.x.v))
  /\ pc' = "done"
  /\ UNCHANGED <<tableVars, call, validatorVars, runVars>>

NextSel == CallBuildSelectionQuery

SpecSel == InitSel /\ [][NextSel]_vars

(***************************************************************************)
(* C15: the shape of the filter build_selection_query returns              *)
(***************************************************************************)
Modifiers == {s_contains, s_startswith, s_endswith}

\* the modifiers a value carries
ModifiersOf(value) ==
  IF value.t = "dict" THEN { m \in Modifiers : DictHas(value.v, m) } ELSE {}

\* field = encoded value
Equality(field, value) ==
  convert_field_name(field) \o <<" ", "=", " ">> \o convert_value(value)

\* field matches "pattern": the operand of modifier m with the wildcard on
\* both sides for contains, after it for startswith, before it for endswith
MatchesPattern(field, m, value) ==
  convert_field_name(field)
    \o <<" ","m","a","t","c","h","e","s"," ","\"">>
    \o (IF m \in {s_contains, s_endswith} THEN <<"*">> ELSE <<>>)
    \o PyStr(DictGet(value.v, m))
    \o (IF m \in {s_contains, s_startswith} THEN <<"*">> ELSE <<>>)
    \o <<"\"">>

\* the conditions the statement allows for one field
ConditionsFor(field, value) ==
  IF value.t = "list"
    THEN { <<"(">> \o Join(<<" ","O","R"," ">>,
                           [i \in 1..Len(value.v) |-> Equality(field, value.v[i])])
                   \o <<")">> }
  ELSE IF ModifiersOf(value) # {}
    THEN { MatchesPattern(field, m, value) : m \in ModifiersOf(value) }
  ELSE { Equality(field, value) }

\* C15: build_selection_query returns the empty string exactly when the
\* selection is empty; otherwise it returns ' | where ' followed by one
\* condition per field, in insertion order, joined by ' AND ': for a
\* sequence the parenthesised ' OR ' of one equality per element, for a
\* modifier mapping the matches pattern of a modifier it carries (wildcard
\* on both sides for contains, as suffix for startswith, as prefix for
\* endswith), for any other value the equality with the encoded value.
C15_SelectionQuery ==
  (pc = "done" /\ call.fn = "build_selection_query") =>
    LET selection == call.x.v
        n == Len(selection)
    IN  /\ ~ret.exc
        /\ ret.v = <<>> <=> selection = <<>>
        /\ selection # <<>> =>
             \E conditions \in
                  [1..n -> UNION { ConditionsFor(selection[i][1], selection[i][2]) :
                                     i \in 1..n }] :
               /\ \A i \in 1..n :
                    conditions[i] \in ConditionsFor(selection[i][1], selection[i][2])
               /\ ret.v = <<" ","|"," ","w","h","e","r","e"," ">>
                            \o Join(<<" ","A","N","D"," ">>, conditions)

\* a call on a selection of a sequence of two elements followed by an
\* endswith modifier has returned a filter
C15_Witness ==
  /\ pc = "done"
  /\ call.fn = "build_selection_query"
  /\ Len(call.x.v) = 2
  /\ call.x.v[1][2].t = "list"
  /\ Len(call.x.v[1][2].v) = 2
  /\ ModifiersOf(call.x.v[2][2]) = {s_endswith}
  /\ ret.v # <<>>

(***************************************************************************)
(* C16: the entries of the aggregate report                                *)
(***************************************************************************)
\* C16 as stated: after a batch in which every discovered rule file
\* converted, converted_rules.json holds exactly one entry per discovered
\* file, in discovery order: the i-th entry is the one of the i-th file,
\* with its file name and its query.
C16_Original ==
  (/\ pc = "exited"
   /\ sigma_files # <<>>
   /\ Len(log) = Len(sigma_files)
   /\ \A i \in 1..Len(log) : log[i].ok)
    => /\ DictHas(out_files, s_converted_rules_json)
       /\ LET report == DictGet(out_files, s_converted_rules_json)
          IN  /\ Len(report) = Len(sigma_files)
              /\ \A i \in 1..Len(sigma_files) :
                   /\ report[i][1] = sigma_files[i].stem
                   /\ report[i][2] = [file |-> FileName(sigma_files[i]),
                                      query |-> log[i].query]

====
